---- MODULE Spec2Model ----
(***************************************************************************)
(* Model of the stock-buster backend handlers (infra/src/handlers).        *)
(*                                                                         *)
(* Every Lambda invocation is a handler instance h with a program counter *)
(* pc[h] and its local variables.  All shared state lives in the DynamoDB  *)
(* tables, modelled as functions from the present keys to the items.  One  *)
(* action is one store call of a handler together with the local           *)
(* computation around it, so handlers interleave exactly at their awaits.  *)
(*                                                                         *)
(* JavaScript numbers are modelled by exact rationals [n, d] in lowest     *)
(* terms (d > 0); request quantities and prices are drawn from integers.   *)
(***************************************************************************)
EXTENDS Integers, Sequences, FiniteSets, TLC

\* ------------------------------------------------------------------ bounds
MaxTx == 3
MaxQty == 2
\* calcMoversDaily.ts: .slice(0, 100) and batchSize = 25, scaled down.
TopLimit == 3
BatchSize == 2

Handlers == {1, 2}
UserIds == {"u1"}
Emails == {"a@x.io"}
NoEmail == "none"
Quantities == 1 .. MaxQty
BuyPrices == {30000, 40000}
SellPrices == {30000}
\* One request body per way of being invalid.
InvalidTrades == {<<"", 1, 30000>>, <<"AAPL", 0, 30000>>, <<"AAPL", 1, 0>>}
\* The request bodies tried: <<symbol, quantity, price>>.
BuyInputs ==
  ({"AAPL"} \X Quantities \X BuyPrices) \cup {<<"MSFT", 1, 30000>>}
    \cup InvalidTrades
SellInputs ==
  ({"AAPL"} \X Quantities \X SellPrices) \cup {<<"MSFT", 1, 30000>>}
    \cup InvalidTrades
NewBalances == {-1, 20000}

\* users.ts:51  virtualBalance: 100000
InitialBalance == 100000

\* ------------------------------------------------------- exact arithmetic
Abs(x) == IF x < 0 THEN 0 - x ELSE x

RECURSIVE GCD(_, _)
GCD(a, b) == IF b = 0 THEN a ELSE GCD(b, a % b)

Norm(n, d) == LET g == GCD(Abs(n), d) IN [n |-> n \div g, d |-> d \div g]

RInt(i) == [n |-> i, d |-> 1]
RAdd(x, y) == Norm(x.n * y.d + y.n * x.d, x.d * y.d)
RSub(x, y) == Norm(x.n * y.d - y.n * x.d, x.d * y.d)
RMul(x, y) == Norm(x.n * y.n, x.d * y.d)
RDiv(x, y) == Norm(x.n * y.d, x.d * y.n)
RLess(x, y) == x.n * y.d < y.n * x.d
NoNumber == [n |-> 0, d |-> 0]

\* ------------------------------------------------------------ table access
Get(table, key) == IF key \in DOMAIN table THEN {table[key]} ELSE {}

Put(table, key, item) ==
  [k \in DOMAIN table \cup {key} |-> IF k = key THEN item ELSE table[k]]

Delete(table, key) == [k \in DOMAIN table \ {key} |-> table[k]]

Item(option) == CHOOSE i \in option : TRUE

\* users.ts, portfolio.ts: the tables, and per handler its position in the
\* code, its request and the items it has read.
VARIABLES users, portfolios, transactions, pc, req, user, position, response

\* users.ts: the values uuidv4() returns in this deployment.
VARIABLES uuids

\* calcMoversDaily.ts: the daily bars and movers tables and the calculator run.
VARIABLES bars, movers, run

\* websocket.ts: the connection records, per handler its locals, and the
\* result of the invocation that returned last.
VARIABLES connections, ws, wsResponse

\* watchlist.ts: the watchlists table, per handler its locals, and the
\* response of the request that returned last.
VARIABLES watchlists, wl, wlResponse

\* The market-data fetch job and GET /movers: the intraday bars table, the
\* locals of the job, and the response of the GET that returned last.
VARIABLES intraday, fetch, moversReply

tradingVars ==
  <<users, portfolios, transactions, pc, req, user, position, response>>
moversVars == <<bars, movers, run>>
wsVars == <<connections, ws, wsResponse>>
watchVars == <<watchlists, wl, wlResponse>>
marketVars == <<intraday, fetch, moversReply>>
vars == <<tradingVars, moversVars, wsVars, watchVars, uuids, marketVars>>
store == <<users, portfolios, transactions>>
\* What the users.ts and portfolio.ts handlers never touch.
outsideTrading == <<moversVars, wsVars, watchVars, uuids, marketVars>>

NoRequest == [op |-> "none"]
NoReply == [status |-> 0, message |-> "", profitLoss |-> NoNumber]

Response(status, message) ==
  [status |-> status, message |-> message, profitLoss |-> NoNumber]

InFlight == {h \in Handlers : pc[h] # "idle"}
\* A new invocation takes the first idle handler.
FirstIdle(h) == pc[h] = "idle" /\ \A g \in Handlers : g < h => pc[g] # "idle"

Trading == {h \in Handlers : pc[h] \in {"buy_getPosition", "buy_commit",
                                         "sell_getUser", "sell_commit"}}

QuietTrading ==
  /\ users = <<>>
  /\ portfolios = <<>>
  /\ transactions = <<>>
  /\ pc = [h \in Handlers |-> "idle"]
  /\ req = [h \in Handlers |-> NoRequest]
  /\ user = [h \in Handlers |-> {}]
  /\ position = [h \in Handlers |-> {}]
  /\ response = NoReply

InitTrading == QuietTrading /\ uuids = UserIds

\* A handler returns: it loses its locals, and response holds what it
\* answered until the gateway has handed it to the caller (Respond).
Return(h, answer) ==
  /\ pc' = [pc EXCEPT ![h] = "idle"]
  /\ req' = [req EXCEPT ![h] = NoRequest]
  /\ user' = [user EXCEPT ![h] = {}]
  /\ position' = [position EXCEPT ![h] = {}]
  /\ response' = answer

\* ------------------------------------------------ portfolio.ts: buyStock
ValidTrade(symbol, quantity, price) ==
  ~(symbol = "" \/ quantity = 0 \/ price = 0 \/ quantity <= 0 \/ price <= 0)

TradeRequest(op, userId, symbol, quantity, price) ==
  [op |-> op, userId |-> userId, symbol |-> symbol,
   quantity |-> quantity, price |-> price]

TotalCost(request) == request.quantity * request.price

\* Mutant: an existing position grows by the price, not by quantity * price.
BuyPositionByPrice(existing, request) ==
  IF existing # {}
  THEN LET currentPosition == Item(existing)
           newQuantity == currentPosition.quantity + request.quantity
           newTotalInvested ==
             RAdd(currentPosition.totalInvested, RInt(request.price))
       IN [quantity |-> newQuantity,
           averagePrice |-> RDiv(newTotalInvested, RInt(newQuantity)),
           totalInvested |-> newTotalInvested]
  ELSE [quantity |-> request.quantity,
        averagePrice |-> RInt(request.price),
        totalInvested |-> RInt(TotalCost(request))]

\* Mutant: the new average is the mean of the old average and the price.
BuyPositionMeanOfPrices(existing, request) ==
  IF existing # {}
  THEN LET currentPosition == Item(existing)
       IN [quantity |-> currentPosition.quantity + request.quantity,
           averagePrice |->
             RDiv(RAdd(currentPosition.averagePrice, RInt(request.price)),
                  RInt(2)),
           totalInvested |->
             RAdd(currentPosition.totalInvested, RInt(TotalCost(request)))]
  ELSE [quantity |-> request.quantity,
        averagePrice |-> RInt(request.price),
        totalInvested |-> RInt(TotalCost(request))]

\* The position item the buy puts: a new one, or the existing one grown.
BuyPosition(existing, request) ==
  IF existing # {}
  THEN LET currentPosition == Item(existing)
           newQuantity == currentPosition.quantity + request.quantity
           newTotalInvested ==
             RAdd(currentPosition.totalInvested, RInt(TotalCost(request)))
           newAveragePrice == RDiv(newTotalInvested, RInt(newQuantity))
       IN [quantity |-> newQuantity,
           averagePrice |-> newAveragePrice,
           totalInvested |-> newTotalInvested]
  ELSE [quantity |-> request.quantity,
        averagePrice |-> RInt(request.price),
        totalInvested |-> RInt(TotalCost(request))]

TransactionRecord(request, type, transactionId) ==
  [userId |-> request.userId, transactionId |-> transactionId,
   symbol |-> request.symbol, type |-> type,
   quantity |-> request.quantity, price |-> request.price,
   totalAmount |-> request.quantity * request.price]

\* Mutant: the id repeats the one handed out last.
RepeatedTransactionId ==
  IF Len(transactions) = 0 THEN 1 ELSE Len(transactions)

\* uuidv4(): an id no stored transaction carries.  The table is keyed by
\* transactionId; ids are handed out in commit order, so it reads as a log.
NewTransactionId == Len(transactions) + 1

\* Mutant: the check forgets the quantity.
InsufficientBalanceByPrice(readUser, request) ==
  readUser.virtualBalance < request.price

\* The balance check of line 142.
InsufficientBalance(readUser, request) ==
  readUser.virtualBalance < TotalCost(request)

\* Mutant: the debit forgets the quantity.
BuyBalanceByPrice(readUser, request) ==
  readUser.virtualBalance - request.price

BuyBalance(readUser, request) == readUser.virtualBalance - TotalCost(request)

\* Validation and the GetCommand on the users table (lines 114-144).
BuyStart(h, userId, symbol, quantity, price, ok) ==
  LET request == TradeRequest("buy", userId, symbol, quantity, price)
      userResponse == Get(users, userId)
  IN /\ response = NoReply
     /\ UNCHANGED outsideTrading
     /\ FirstIdle(h)
     /\ Len(transactions) + Cardinality(Trading) < MaxTx
     /\ UNCHANGED store
     /\ IF ~ValidTrade(symbol, quantity, price)
        THEN Return(h, Response(400, "Valid symbol, quantity, and price are required"))
        ELSE IF ~ok
        THEN Return(h, Response(500, "Failed to buy stock"))
        ELSE IF userResponse = {}
        THEN Return(h, Response(404, "User not found"))
        ELSE IF InsufficientBalance(Item(userResponse), request)
        THEN Return(h, Response(400, "Insufficient balance"))
        ELSE /\ pc' = [pc EXCEPT ![h] = "buy_getPosition"]
             /\ req' = [req EXCEPT ![h] = request]
             /\ user' = [user EXCEPT ![h] = userResponse]
             /\ UNCHANGED position
             /\ response' = NoReply

\* The GetCommand on the portfolio table (lines 146-150).
BuyGetPosition(h) ==
  /\ response = NoReply
  /\ UNCHANGED outsideTrading
  /\ pc[h] = "buy_getPosition"
  /\ position' = [position EXCEPT
                    ![h] = Get(portfolios, <<req[h].userId, req[h].symbol>>)]
  /\ pc' = [pc EXCEPT ![h] = "buy_commit"]
  /\ UNCHANGED <<store, req, user>>
  /\ response' = NoReply

\* Mutant: the commit debits the balance stored at commit time.
BuyCommitOnStoredBalance(h) ==
  /\ response = NoReply
  /\ UNCHANGED outsideTrading
  /\ pc[h] = "buy_commit"
  /\ portfolios' = Put(portfolios, <<req[h].userId, req[h].symbol>>,
                       BuyPosition(position[h], req[h]))
  /\ transactions' = Put(transactions, NewTransactionId,
                         TransactionRecord(req[h], "BUY", NewTransactionId))
  /\ users' = Put(users, req[h].userId,
                  [users[req[h].userId] EXCEPT
                     !.virtualBalance =
                        users[req[h].userId].virtualBalance - TotalCost(req[h])])
  /\ Return(h, Response(200, "Stock purchased successfully"))

\* The TransactWriteCommand (lines 155-229): three puts, applied together.
BuyCommit(h) ==
  /\ response = NoReply
  /\ UNCHANGED outsideTrading
  /\ pc[h] = "buy_commit"
  /\ portfolios' = Put(portfolios, <<req[h].userId, req[h].symbol>>,
                       BuyPosition(position[h], req[h]))
  /\ transactions' = Put(transactions, NewTransactionId,
                         TransactionRecord(req[h], "BUY", NewTransactionId))
  /\ users' = Put(users, req[h].userId,
                  [Item(user[h]) EXCEPT
                     !.virtualBalance = BuyBalance(Item(user[h]), req[h])])
  /\ Return(h, Response(200, "Stock purchased successfully"))

\* ----------------------------------------------- portfolio.ts: sellStock
\* Mutant: the sell takes its proceeds, not its cost basis, out of the position.
SoldInvestmentAtSalePrice(currentPosition, request) ==
  RInt(request.quantity * request.price)

\* The cost basis a sell takes out of the position (line 292).
SoldInvestment(currentPosition, request) ==
  RMul(RDiv(currentPosition.totalInvested, RInt(currentPosition.quantity)),
       RInt(request.quantity))

TotalProceeds(request) == request.quantity * request.price

\* Mutant: a position sold out is stored with quantity 0 instead of deleted.
SellPositionKeepsEmpty(table, currentPosition, request) ==
  Put(table, <<request.userId, request.symbol>>,
      [quantity |-> currentPosition.quantity - request.quantity,
       averagePrice |-> currentPosition.averagePrice,
       totalInvested |->
         RSub(currentPosition.totalInvested,
              SoldInvestment(currentPosition, request))])

\* The portfolio table after the sell's Put or Delete (lines 300-326).
SellPosition(table, currentPosition, request) ==
  LET newQuantity == currentPosition.quantity - request.quantity
      newTotalInvested ==
        RSub(currentPosition.totalInvested,
             SoldInvestment(currentPosition, request))
  IN IF newQuantity > 0
     THEN Put(table, <<request.userId, request.symbol>>,
              [quantity |-> newQuantity,
               averagePrice |-> currentPosition.averagePrice,
               totalInvested |-> newTotalInvested])
     ELSE Delete(table, <<request.userId, request.symbol>>)

\* Mutant: the credit forgets the quantity.
SellBalanceByPrice(readUser, request) ==
  readUser.virtualBalance + request.price

SellBalance(readUser, request) ==
  readUser.virtualBalance + TotalProceeds(request)

ProfitLoss(currentPosition, request) ==
  RSub(RInt(TotalProceeds(request)), SoldInvestment(currentPosition, request))

\* Mutant: the check is off by one share.
InsufficientSharesOffByOne(currentPosition, request) ==
  currentPosition.quantity + 1 < request.quantity

\* The share check of line 276.
InsufficientShares(currentPosition, request) ==
  currentPosition.quantity < request.quantity

\* Validation and the GetCommand on the portfolio table (lines 249-278).
SellStart(h, userId, symbol, quantity, price, ok) ==
  LET request == TradeRequest("sell", userId, symbol, quantity, price)
      existingPosition == Get(portfolios, <<userId, symbol>>)
  IN /\ response = NoReply
     /\ UNCHANGED outsideTrading
     /\ FirstIdle(h)
     /\ Len(transactions) + Cardinality(Trading) < MaxTx
     /\ UNCHANGED store
     /\ IF ~ValidTrade(symbol, quantity, price)
        THEN Return(h, Response(400, "Valid symbol, quantity, and price are required"))
        ELSE IF ~ok
        THEN Return(h, Response(500, "Failed to sell stock"))
        ELSE IF existingPosition = {}
        THEN Return(h, Response(404, "No position found for this stock"))
        ELSE IF InsufficientShares(Item(existingPosition), request)
        THEN Return(h, Response(400, "Insufficient shares to sell"))
        ELSE /\ pc' = [pc EXCEPT ![h] = "sell_getUser"]
             /\ req' = [req EXCEPT ![h] = request]
             /\ position' = [position EXCEPT ![h] = existingPosition]
             /\ UNCHANGED user
             /\ response' = NoReply

\* The GetCommand on the users table (lines 280-288).
SellGetUser(h) ==
  LET userResponse == Get(users, req[h].userId)
  IN /\ response = NoReply
     /\ UNCHANGED outsideTrading
     /\ pc[h] = "sell_getUser"
     /\ UNCHANGED store
     /\ IF userResponse = {}
        THEN Return(h, Response(404, "User not found"))
        ELSE /\ pc' = [pc EXCEPT ![h] = "sell_commit"]
             /\ user' = [user EXCEPT ![h] = userResponse]
             /\ UNCHANGED <<req, position>>
             /\ response' = NoReply

\* The TransactWriteCommand (lines 297-366).
SellCommit(h) ==
  /\ response = NoReply
  /\ UNCHANGED outsideTrading
  /\ pc[h] = "sell_commit"
  /\ portfolios' = SellPosition(portfolios, Item(position[h]), req[h])
  /\ transactions' = Put(transactions, NewTransactionId,
                         TransactionRecord(req[h], "SELL", NewTransactionId))
  /\ users' = Put(users, req[h].userId,
                  [Item(user[h]) EXCEPT
                     !.virtualBalance = SellBalance(Item(user[h]), req[h])])
  /\ Return(h, [status |-> 200, message |-> "Stock sold successfully",
                profitLoss |-> ProfitLoss(Item(position[h]), req[h])])

\* ------------------------------------------------- users.ts: createUser
Creating == {h \in Handlers : pc[h] = "create_put"}
FreeUserIds == uuids \ DOMAIN users

\* Validation and the EmailIndex query (lines 19-41).
CreateUserStart(h, email, ok) ==
  LET existingUser == {u \in DOMAIN users : users[u].email = email}
  IN /\ response = NoReply
     /\ UNCHANGED outsideTrading
     /\ FirstIdle(h)
     /\ Cardinality(Creating) < Cardinality(FreeUserIds)
     /\ UNCHANGED store
     /\ IF email = NoEmail
        THEN Return(h, Response(400, "Email and cognitoUserId are required"))
        ELSE IF ~ok
        THEN Return(h, Response(500, "Failed to create user"))
        ELSE IF existingUser # {}
        THEN Return(h, Response(409, "User with this email already exists"))
        ELSE /\ pc' = [pc EXCEPT ![h] = "create_put"]
             /\ req' = [req EXCEPT ![h] = [op |-> "createUser", email |-> email]]
             /\ UNCHANGED <<user, position>>
             /\ response' = NoReply

\* The conditional PutCommand under a fresh uuid (lines 43-63).
CreateUserPut(h, userId) ==
  /\ response = NoReply
  /\ UNCHANGED outsideTrading
  /\ pc[h] = "create_put"
  /\ userId \in FreeUserIds
  /\ users' = Put(users, userId,
                  [virtualBalance |-> InitialBalance, email |-> req[h].email])
  /\ Return(h, Response(201, "User created successfully"))
  /\ UNCHANGED <<portfolios, transactions>>

\* ------------------------------------------ users.ts: updateUserBalance
\* Validation and the conditional PutCommand (lines 116-141): the item put
\* holds userId, virtualBalance and updatedAt only.
UpdateUserBalancePut(h, userId, balance, ok) ==
  /\ response = NoReply
  /\ UNCHANGED outsideTrading
  /\ FirstIdle(h)
  /\ UNCHANGED <<portfolios, transactions>>
  /\ IF balance < 0
     THEN /\ Return(h, Response(400, "Valid balance is required"))
          /\ UNCHANGED users
     ELSE IF ~ok
     THEN /\ Return(h, Response(500, "Failed to update user balance"))
          /\ UNCHANGED users
     ELSE IF userId \notin DOMAIN users
     THEN /\ Return(h, Response(404, "User not found"))
          /\ UNCHANGED users
     ELSE /\ users' = Put(users, userId,
                          [virtualBalance |-> balance, email |-> NoEmail])
          /\ pc' = [pc EXCEPT ![h] = "update_get"]
          /\ req' = [req EXCEPT ![h] = [op |-> "updateUserBalance",
                                         userId |-> userId]]
          /\ UNCHANGED <<user, position>>
          /\ response' = NoReply

\* The GetCommand that reads the user back (lines 143-153).
UpdateUserBalanceGet(h) ==
  /\ response = NoReply
  /\ UNCHANGED outsideTrading
  /\ pc[h] = "update_get"
  /\ UNCHANGED store
  /\ IF Get(users, req[h].userId) = {}
     THEN Return(h, Response(404, "User not found"))
     ELSE Return(h, Response(200, "User balance updated successfully"))

\* ------------------------------------------------------ storage failures
FailureMessage(op) ==
  CASE op = "buy" -> "Failed to buy stock"
    [] op = "sell" -> "Failed to sell stock"
    [] op = "createUser" -> "Failed to create user"
    [] op = "updateUserBalance" -> "Failed to update user balance"

\* Mutant: the buy writes its items one by one, and the failure comes after
\* the position was put.
StoreFailureAfterFirstPut(h) ==
  /\ response = NoReply
  /\ UNCHANGED outsideTrading
  /\ pc[h] # "idle"
  /\ Return(h, Response(500, FailureMessage(req[h].op)))
  /\ portfolios' = IF pc[h] = "buy_commit"
                   THEN Put(portfolios, <<req[h].userId, req[h].symbol>>,
                            BuyPosition(position[h], req[h]))
                   ELSE portfolios
  /\ UNCHANGED <<users, transactions>>

\* Mutant: a failing buy has already put the debited user item.
StoreFailureAfterUserPut(h) ==
  /\ response = NoReply
  /\ UNCHANGED outsideTrading
  /\ pc[h] # "idle"
  /\ Return(h, Response(500, FailureMessage(req[h].op)))
  /\ users' = IF pc[h] = "buy_commit"
              THEN Put(users, req[h].userId,
                       [Item(user[h]) EXCEPT
                          !.virtualBalance = BuyBalance(Item(user[h]), req[h])])
              ELSE users
  /\ UNCHANGED <<portfolios, transactions>>

\* The pending store call of a running handler throws: the catch block
\* answers 500 and nothing is written.  (A first store call that throws is
\* the ~ok branch of the handler's first step.)
StoreFailure(h) ==
  /\ response = NoReply
  /\ UNCHANGED outsideTrading
  /\ pc[h] # "idle"
  /\ Return(h, Response(500, FailureMessage(req[h].op)))
  /\ UNCHANGED store

\* The API gateway hands the pending response to the caller.
Respond ==
  /\ response # NoReply
  /\ UNCHANGED outsideTrading
  /\ response' = NoReply
  /\ UNCHANGED <<store, pc, req, user, position>>

\* ------------------------------------ calcMoversDaily.ts: the input data
\* The symbols in the order the scan returns them.
Symbols == <<"BHP.AX", "CBA.AX", "RIO.AX", "WOW.AX", "TEST">>
SymbolSet == {Symbols[k] : k \in DOMAIN Symbols}
SymbolIndex(symbol) == CHOOSE k \in DOMAIN Symbols : Symbols[k] = symbol

\* symbol.split('.'): the part after the last dot, "" when there is none.
Suffixes ==
  [symbol \in SymbolSet |-> IF symbol = "TEST" THEN "" ELSE "AX"]

\* Three consecutive days; the calculator runs on the second and the third.
Dates == <<"2024-01-01", "2024-01-02", "2024-01-03">>
DateIndex(date) == CHOOSE d \in DOMAIN Dates : Dates[d] = date

\* The closes of a symbol on the three days ({} = no bar that day), in
\* whole dollars so that the floating-point subtraction is exact.
Histories ==
  [symbol \in SymbolSet |->
     CASE symbol = "BHP.AX" -> {<<{40}, {50}, {40}>>, <<{40}, {30}, {}>>}
       [] symbol = "CBA.AX" -> {<<{100}, {101}, {102}>>,
                                <<{200}, {201}, {210}>>,
                                <<{}, {30}, {32}>>}
       [] symbol = "RIO.AX" -> {<<{30}, {29}, {30}>>, <<{40}, {50}, {}>>}
       [] symbol = "WOW.AX" -> {<<{30}, {32}, {}>>, <<{}, {}, {}>>}
       [] OTHER -> {<<{40}, {50}, {50}>>, <<{}, {}, {}>>}]

BarTable(history) ==
  LET keys == {k \in SymbolSet \X DOMAIN Dates : history[k[1]][k[2]] # {}}
  IN [k \in {<<j[1], Dates[j[2]]>> : j \in keys} |->
        [symbol |-> k[1], date |-> k[2],
         close |-> Item(history[k[1]][DateIndex(k[2])])]]

BarTables ==
  {BarTable(history) :
     history \in {h \in [SymbolSet -> UNION {Histories[s] : s \in SymbolSet}] :
                    \A s \in SymbolSet : h[s] \in Histories[s]}}

\* The symbols whose bar queries throw in a run: none, or those of one symbol.
ReadFailures == {{}} \cup {{symbol} : symbol \in SymbolSet}

\* ------------------------------- calcMoversDaily.ts: calculateDailyMovers
RAbs(x) == [n |-> Abs(x.n), d |-> x.d]

\* Number(x.toFixed(2)): the nearest multiple of 1/100, a tie going away
\* from zero.
toFixed2(x) ==
  LET k == (2 * 100 * Abs(x.n) + x.d) \div (2 * x.d)
  IN Norm((IF x.n < 0 THEN 0 - k ELSE k), 100)

exchangeMap ==
  [suffix \in {"AX", "L", "T", "HK", "SS", "SZ"} |->
     CASE suffix = "AX" -> "ASX"
       [] suffix = "L" -> "LSE"
       [] suffix = "T" -> "TSE"
       [] suffix = "HK" -> "HKEX"
       [] suffix = "SS" -> "SSE"
       [] OTHER -> "SZSE"]

extractExchangeFromSymbol(symbol) ==
  LET suffix == Suffixes[symbol]
  IN IF suffix # ""
       THEN IF suffix \in DOMAIN exchangeMap THEN exchangeMap[suffix]
                                             ELSE suffix
       ELSE "NASDAQ"

\* A query that throws is caught and answers null.
getBarData(symbol, date, ok) == IF ok THEN Get(bars, <<symbol, date>>) ELSE {}

\* Mutant: the change is taken relative to today's close.
ChangePercentOfToday(change, todayData, yesterdayData) ==
  RMul(RDiv(change, RInt(todayData.close)), RInt(100))

ChangePercent(change, todayData, yesterdayData) ==
  RMul(RDiv(change, RInt(yesterdayData.close)), RInt(100))

\* Mutant: no threshold.
AnyMovement(changePercent) == TRUE

\* Math.abs(changePercent) >= 1.0
Significant(changePercent) == ~RLess(RAbs(changePercent), RInt(1))

\* The callback of batch.map for one scanned symbol: the mover, or none.
ProcessSymbol(symbol, today, yesterday, ok) ==
  LET todayResponse == getBarData(symbol, today, ok)
      yesterdayResponse == getBarData(symbol, yesterday, ok)
  IN IF todayResponse = {} \/ yesterdayResponse = {} THEN {}
     ELSE LET todayData == Item(todayResponse)
              yesterdayData == Item(yesterdayResponse)
              change == RSub(RInt(todayData.close), RInt(yesterdayData.close))
              changePercent == ChangePercent(change, todayData, yesterdayData)
          IN IF Significant(changePercent)
               THEN {[symbol |-> symbol,
                      exchange |-> extractExchangeFromSymbol(symbol),
                      price |-> todayData.close,
                      change |-> toFixed2(change),
                      changePercent |-> toFixed2(changePercent),
                      rank |-> 0]}
               ELSE {}

RECURSIVE ProcessSymbols(_, _, _, _)
ProcessSymbols(symbols, today, yesterday, failing) ==
  IF symbols = <<>> THEN <<>>
  ELSE LET result == ProcessSymbol(Head(symbols), today, yesterday,
                                   Head(symbols) \notin failing)
       IN (IF result = {} THEN <<>> ELSE <<Item(result)>>)
            \o ProcessSymbols(Tail(symbols), today, yesterday, failing)

\* The scan returns the symbols that have a bar dated today.
ScanSymbols(today) ==
  SelectSeq(Symbols, LAMBDA symbol : <<symbol, today>> \in DOMAIN bars)

calculateDailyMovers(today, yesterday, failing) ==
  ProcessSymbols(ScanSymbols(today), today, yesterday, failing)

\* ------------------------------------------- calcMoversDaily.ts: handler
\* [...new Set(moversData.map(m => m.exchange))]: first appearances, in order.
RECURSIVE Exchanges(_)
Exchanges(moversData) ==
  IF moversData = <<>> THEN <<>>
  ELSE LET rest == Exchanges(SubSeq(moversData, 1, Len(moversData) - 1))
           exchange == moversData[Len(moversData)].exchange
       IN IF \E k \in DOMAIN rest : rest[k] = exchange THEN rest
          ELSE Append(rest, exchange)

\* Mutant: the comparator is turned around.
InsertAscending(sorted, mover) ==
  LET k == Cardinality({j \in DOMAIN sorted :
                          ~RLess(RAbs(mover.changePercent),
                                 RAbs(sorted[j].changePercent))})
  IN SubSeq(sorted, 1, k) \o <<mover>> \o SubSeq(sorted, k + 1, Len(sorted))

\* The stable sort by |changePercent| descending: one more mover goes behind
\* those that are at least as large.
InsertSorted(sorted, mover) ==
  LET k == Cardinality({j \in DOMAIN sorted :
                          ~RLess(RAbs(sorted[j].changePercent),
                                 RAbs(mover.changePercent))})
  IN SubSeq(sorted, 1, k) \o <<mover>> \o SubSeq(sorted, k + 1, Len(sorted))

RECURSIVE SortMovers(_)
SortMovers(list) ==
  IF list = <<>> THEN <<>>
  ELSE InsertSorted(SortMovers(SubSeq(list, 1, Len(list) - 1)),
                    list[Len(list)])

Rank(list) == [k \in DOMAIN list |-> [list[k] EXCEPT !.rank = k]]

ExchangeMovers(moversData, exchange) ==
  LET ofExchange == SelectSeq(moversData, LAMBDA m : m.exchange = exchange)
      sorted == SortMovers(ofExchange)
      top == SubSeq(sorted, 1, IF Len(sorted) < TopLimit THEN Len(sorted)
                                                         ELSE TopLimit)
  IN Rank(top)

\* ----------------------------------- calcMoversDaily.ts: writeMoversToTable
PartitionKey(exchange) == <<"PERIOD", "DAILY", "EX", exchange>>
SortKey(mover) == <<"RANK", mover.rank, "SYMB", mover.symbol>>

MoverItem(exchange, mover, date) ==
  [pk |-> PartitionKey(exchange), sk |-> SortKey(mover),
   symbol |-> mover.symbol, exchange |-> mover.exchange,
   price |-> mover.price, change |-> mover.change,
   changePercent |-> mover.changePercent, rank |-> mover.rank, date |-> date]

\* The keys of a partition in sort-key order, as the query returns them.
KeyBefore(a, b) ==
  \/ a[2][2] < b[2][2]
  \/ a[2][2] = b[2][2] /\ SymbolIndex(a[2][4]) < SymbolIndex(b[2][4])
RECURSIVE InKeyOrder(_)
InKeyOrder(keys) ==
  IF keys = {} THEN <<>>
  ELSE LET first == CHOOSE a \in keys : \A b \in keys \ {a} : KeyBefore(a, b)
       IN <<first>> \o InKeyOrder(keys \ {first})
QueryPartition(pk) == InKeyOrder({k \in DOMAIN movers : k[1] = pk})

Batch(list, i) ==
  SubSeq(list, i + 1, IF i + BatchSize < Len(list) THEN i + BatchSize
                                                   ELSE Len(list))

\* Mutant: only the first key of a batch is deleted.
DeleteFirstOnly(table, keys) ==
  IF keys = <<>> THEN table ELSE Delete(table, Head(keys))

RECURSIVE DeleteAll(_, _)
DeleteAll(table, keys) ==
  IF keys = <<>> THEN table ELSE DeleteAll(Delete(table, Head(keys)), Tail(keys))

RECURSIVE PutAll(_, _)
PutAll(table, items) ==
  IF items = <<>> THEN table
  ELSE PutAll(Put(table, <<Head(items).pk, Head(items).sk>>, Head(items)),
              Tail(items))

IdleRun ==
  [pc |-> "idle", today |-> 1, result |-> "none", moversData |-> <<>>,
   exchanges |-> <<>>, exchangeMovers |-> <<>>, items |-> <<>>, i |-> 0]

\* What the calculator never touches.
outsideMovers == <<tradingVars, wsVars, watchVars, uuids, marketVars>>

\* The scheduled invocation up to the first write: the scan of today's bars
\* and the two bar queries per symbol (the bars table does not change during
\* a run), then the grouping of the first exchange.
CalcStart(scanOk, failing) ==
  LET today == run.today + 1
      moversData ==
        calculateDailyMovers(Dates[today], Dates[today - 1], failing)
      exchanges == Exchanges(moversData)
  IN /\ run.pc = "idle"
     /\ run.today < Len(Dates)
     /\ run' =
          IF ~scanOk
            THEN [IdleRun EXCEPT !.today = today, !.result = "error"]
          ELSE IF Len(moversData) = 0
            THEN [IdleRun EXCEPT !.today = today,
                                 !.result = "No data to process"]
          ELSE [pc |-> "delete_query", today |-> today, result |-> "running",
                moversData |-> moversData, exchanges |-> exchanges,
                exchangeMovers |-> ExchangeMovers(moversData, Head(exchanges)),
                items |-> <<>>, i |-> 0]
     /\ UNCHANGED <<bars, movers, outsideMovers>>

\* deleteExistingMovers: the query of the partition's keys.
DeleteQuery(ok) ==
  LET items == QueryPartition(PartitionKey(Head(run.exchanges)))
  IN /\ run.pc = "delete_query"
     /\ run' =
          IF ok /\ Len(items) # 0
            THEN [run EXCEPT !.pc = "delete_batch", !.items = items, !.i = 0]
            ELSE [run EXCEPT !.pc = "insert", !.i = 0]
     /\ UNCHANGED <<bars, movers, outsideMovers>>

\* Mutant: a failed delete ends the run.
DeleteBatchRethrows(ok) ==
  /\ run.pc = "delete_batch"
  /\ IF ok
       THEN /\ movers' = DeleteAll(movers, Batch(run.items, run.i))
            /\ run' =
                 IF run.i + BatchSize < Len(run.items)
                   THEN [run EXCEPT !.i = run.i + BatchSize]
                   ELSE [run EXCEPT !.pc = "insert", !.items = <<>>, !.i = 0]
       ELSE /\ movers' = movers
            /\ run' = [IdleRun EXCEPT !.today = run.today, !.result = "error"]
  /\ UNCHANGED <<bars, outsideMovers>>

\* deleteExistingMovers: one BatchWriteCommand of delete requests; a failure
\* is caught, logged, and the rest of the deletes is given up.
DeleteBatch(ok) ==
  /\ run.pc = "delete_batch"
  /\ IF ok
       THEN /\ movers' = DeleteAll(movers, Batch(run.items, run.i))
            /\ run' =
                 IF run.i + BatchSize < Len(run.items)
                   THEN [run EXCEPT !.i = run.i + BatchSize]
                   ELSE [run EXCEPT !.pc = "insert", !.items = <<>>, !.i = 0]
       ELSE /\ movers' = movers
            /\ run' = [run EXCEPT !.pc = "insert", !.items = <<>>, !.i = 0]
  /\ UNCHANGED <<bars, outsideMovers>>

\* After the last batch of an exchange: the next exchange, or the return.
AfterExchange ==
  IF Len(run.exchanges) > 1
    THEN [run EXCEPT !.pc = "delete_query",
                     !.exchanges = Tail(run.exchanges),
                     !.exchangeMovers =
                        ExchangeMovers(run.moversData, run.exchanges[2]),
                     !.i = 0]
    ELSE [IdleRun EXCEPT !.today = run.today, !.result = "ok"]

\* writeMoversToTable: one BatchWriteCommand of put requests; a failure is
\* rethrown by the handler.
InsertBatch(ok) ==
  LET batch == Batch(run.exchangeMovers, run.i)
      exchange == Head(run.exchanges)
  IN /\ run.pc = "insert"
     /\ IF ok
          THEN /\ movers' =
                    PutAll(movers,
                           [k \in DOMAIN batch |->
                              MoverItem(exchange, batch[k], Dates[run.today])])
               /\ run' =
                    IF run.i + BatchSize < Len(run.exchangeMovers)
                      THEN [run EXCEPT !.i = run.i + BatchSize]
                      ELSE AfterExchange
          ELSE /\ movers' = movers
               /\ run' =
                    [IdleRun EXCEPT !.today = run.today, !.result = "error"]
     /\ UNCHANGED <<bars, outsideMovers>>

QuietMovers == bars = <<>> /\ movers = <<>> /\ run = IdleRun

\* ----------------------------------------------------------- websocket.ts
WsHandlers == {1, 2}
ConnectionIds == {"c1", "c2"}
\* The messages tried: <<action, type, symbol>>, "" for no type and {} for
\* no symbol.
Messages ==
  ({"subscribe", "unsubscribe"}
     \X {<<"movers", {}>>, <<"", {"AAPL"}>>, <<"", {}>>})
  \cup {<<"ping", <<"", {}>>>>, <<"hello", <<"", {}>>>>}
PushOutcomes == {"ok", "gone", "error"}

\* `ticker:${symbol}`: an undefined symbol prints as "undefined".
TemplateString(symbol) == IF symbol = {} THEN "undefined" ELSE Item(symbol)

\* type === 'movers' ? 'movers' : `ticker:${symbol}`
Subscription(type, symbol) ==
  IF type = "movers" THEN <<"movers">>
  ELSE <<"ticker:", TemplateString(symbol)>>

\* Mutant: the list is not de-duplicated.
AppendAlways(subscriptions, subscription) == Append(subscriptions, subscription)

\* [...new Set([...subscriptions, subscription])]
UniqueSubscriptions(subscriptions, subscription) ==
  IF \E k \in DOMAIN subscriptions : subscriptions[k] = subscription
    THEN subscriptions
    ELSE Append(subscriptions, subscription)

\* subscriptions.filter(s => s !== subscription)
WithoutSubscription(subscriptions, subscription) ==
  SelectSeq(subscriptions, LAMBDA s : s # subscription)

IdleWs ==
  [pc |-> "idle", connectionId |-> "", action |-> "", type |-> "",
   symbol |-> {}, connection |-> {}, queue |-> <<>>, sent |-> <<>>,
   guarded |-> FALSE, failed |-> FALSE, gone |-> FALSE, status |-> 0]

NoWsReply ==
  [status |-> 0, connectionId |-> "", action |-> "", sent |-> <<>>,
   failed |-> FALSE, gone |-> FALSE]

WsReply(local) ==
  [status |-> local.status, connectionId |-> local.connectionId,
   action |-> local.action, sent |-> local.sent,
   failed |-> local.failed, gone |-> local.gone]

RECURSIVE InKeyOrderOfIds(_)
InKeyOrderOfIds(ids) ==
  IF ids = {} THEN <<>>
  ELSE LET first == IF "c1" \in ids THEN "c1" ELSE CHOOSE c \in ids : TRUE
       IN <<first>> \o InKeyOrderOfIds(ids \ {first})

WsInFlight == {h \in WsHandlers : ws[h].pc # "idle"}
WsFirstIdle(h) ==
  ws[h].pc = "idle" /\ \A g \in WsHandlers : g < h => ws[g].pc # "idle"

\* What websocket.ts never touches.
outsideWs == <<tradingVars, moversVars, watchVars, uuids, marketVars>>

\* The locals after a step: the handler goes on, or it returns and
\* wsResponse holds its result until the gateway has taken it (WsRespond).
WsGoOn(h, local) ==
  IF local.pc = "return"
    THEN /\ ws' = [ws EXCEPT ![h] = IdleWs]
         /\ wsResponse' = WsReply(local)
    ELSE /\ ws' = [ws EXCEPT ![h] = local]
         /\ wsResponse' = wsResponse

WsReturn(local, status) == [local EXCEPT !.pc = "return", !.status = status]

FailureNotice(action) ==
  IF action = "subscribe" THEN "Failed to subscribe"
                          ELSE "Failed to unsubscribe"

\* Mutant: handleSubscribe and handleUnsubscribe have no catch.
ThrowAlwaysPropagates(local) == WsReturn(local, 500)

\* An exception: inside the try of handleSubscribe or handleUnsubscribe it
\* is caught and the failure notice is pushed; anywhere else it reaches the
\* catch of message, which answers 500.
Throw(local) ==
  IF local.guarded
    THEN [local EXCEPT !.pc = "push", !.queue = <<FailureNotice(local.action)>>,
                       !.guarded = FALSE]
    ELSE WsReturn(local, 500)

\* After a sendToConnection that returned: the next push, or the return 200.
AfterSend(local) ==
  LET rest == [local EXCEPT !.queue = Tail(local.queue)]
  IN IF rest.queue = <<>> THEN WsReturn(rest, 200)
                          ELSE [rest EXCEPT !.pc = "push"]

\* Mutant: a delivered push goes to every registered connection.
PostToEveryConnection(local, outcome) ==
  LET targets == InKeyOrderOfIds(DOMAIN connections \cup {local.connectionId})
  IN CASE outcome = "ok" ->
            AfterSend([local EXCEPT !.sent =
                         local.sent \o
                           [k \in DOMAIN targets |->
                              [to |-> targets[k], data |-> Head(local.queue)]]])
       [] outcome = "gone" ->
            [local EXCEPT !.pc = "stale_delete", !.gone = TRUE]
       [] OTHER -> Throw([local EXCEPT !.failed = TRUE])

\* sendToConnection: the PostToConnectionCommand for the head of the queue.
PostToConnection(local, outcome) ==
  CASE outcome = "ok" ->
         AfterSend([local EXCEPT !.sent =
                      Append(local.sent, [to |-> local.connectionId,
                                          data |-> Head(local.queue)])])
    [] outcome = "gone" -> [local EXCEPT !.pc = "stale_delete", !.gone = TRUE]
    [] OTHER -> Throw([local EXCEPT !.failed = TRUE])

MessageLocals(connectionId, action, type, symbol) ==
  [IdleWs EXCEPT !.connectionId = connectionId, !.action = action,
                 !.type = type, !.symbol = symbol]

\* connect: one PutCommand of a record with no subscriptions.
Connect(h, connectionId, ok) ==
  /\ wsResponse = NoWsReply
  /\ WsFirstIdle(h)
  /\ connections' =
       IF ok THEN Put(connections, connectionId,
                      [connectionId |-> connectionId, subscriptions |-> <<>>])
             ELSE connections
  /\ WsGoOn(h, WsReturn(MessageLocals(connectionId, "$connect", "", {}),
                        IF ok THEN 200 ELSE 500))
  /\ UNCHANGED outsideWs

\* disconnect: one DeleteCommand.
Disconnect(h, connectionId, ok) ==
  /\ wsResponse = NoWsReply
  /\ WsFirstIdle(h)
  /\ connections' = IF ok THEN Delete(connections, connectionId)
                          ELSE connections
  /\ WsGoOn(h, WsReturn(MessageLocals(connectionId, "$disconnect", "", {}),
                        IF ok THEN 200 ELSE 500))
  /\ UNCHANGED outsideWs

\* message with a body that is not JSON.
InvalidMessage(h, connectionId) ==
  /\ wsResponse = NoWsReply
  /\ WsFirstIdle(h)
  /\ WsGoOn(h, WsReturn(MessageLocals(connectionId, "invalid", "", {}), 400))
  /\ UNCHANGED <<connections, outsideWs>>

\* message, action ping or an unknown action: the one push.
Notify(h, connectionId, action, outcome) ==
  LET local == [MessageLocals(connectionId, action, "", {}) EXCEPT
                  !.queue = <<IF action = "ping" THEN "pong"
                                                 ELSE "Unknown action">>]
  IN /\ wsResponse = NoWsReply
     /\ WsFirstIdle(h)
     /\ action \notin {"subscribe", "unsubscribe"}
     /\ WsGoOn(h, PostToConnection(local, outcome))
     /\ UNCHANGED <<connections, outsideWs>>

\* Mutant: a missing record is taken for a connection without subscriptions.
GetConnectionOrNew(h, connectionId, action, type, symbol, ok) ==
  LET local == [MessageLocals(connectionId, action, type, symbol) EXCEPT
                  !.guarded = TRUE]
      getResponse == Get(connections, connectionId)
  IN /\ wsResponse = NoWsReply
     /\ WsFirstIdle(h)
     /\ action \in {"subscribe", "unsubscribe"}
     /\ WsGoOn(h,
          IF ~ok THEN Throw(local)
          ELSE IF getResponse = {}
            THEN [local EXCEPT !.pc = "put",
                               !.connection =
                                  {[connectionId |-> connectionId,
                                    subscriptions |-> <<>>]}]
          ELSE [local EXCEPT !.pc = "put", !.connection = getResponse])
     /\ UNCHANGED <<connections, outsideWs>>

\* handleSubscribe, handleUnsubscribe: the GetCommand of the record.
GetConnection(h, connectionId, action, type, symbol, ok) ==
  LET local == [MessageLocals(connectionId, action, type, symbol) EXCEPT
                  !.guarded = TRUE]
      getResponse == Get(connections, connectionId)
  IN /\ wsResponse = NoWsReply
     /\ WsFirstIdle(h)
     /\ action \in {"subscribe", "unsubscribe"}
     /\ WsGoOn(h,
          IF ~ok THEN Throw(local)
          ELSE IF getResponse = {}
            THEN [local EXCEPT !.pc = "push",
                               !.queue = <<"Connection not found">>]
          ELSE [local EXCEPT !.pc = "put", !.connection = getResponse])
     /\ UNCHANGED <<connections, outsideWs>>

\* The pushes after the PutCommand of handleSubscribe: the acknowledgement
\* and the initial data.
SubscribePushes(local) ==
  <<"subscribed">> \o (IF local.type = "movers" THEN <<"movers">>
                       ELSE IF local.symbol # {} THEN <<"ticker">>
                       ELSE <<>>)

\* handleSubscribe: the PutCommand of the record read, with the new list.
SubscribePut(h, ok) ==
  LET local == ws[h]
      connection == Item(local.connection)
      subscription == Subscription(local.type, local.symbol)
  IN /\ wsResponse = NoWsReply
     /\ local.pc = "put" /\ local.action = "subscribe"
     /\ connections' =
          IF ok
            THEN Put(connections, local.connectionId,
                     [connection EXCEPT !.subscriptions =
                        UniqueSubscriptions(connection.subscriptions,
                                            subscription)])
            ELSE connections
     /\ WsGoOn(h, IF ok THEN [local EXCEPT !.pc = "push",
                                           !.queue = SubscribePushes(local)]
                        ELSE Throw(local))
     /\ UNCHANGED outsideWs

\* handleUnsubscribe: the PutCommand of the record read, with the list
\* filtered.
UnsubscribePut(h, ok) ==
  LET local == ws[h]
      connection == Item(local.connection)
      subscription == Subscription(local.type, local.symbol)
  IN /\ wsResponse = NoWsReply
     /\ local.pc = "put" /\ local.action = "unsubscribe"
     /\ connections' =
          IF ok
            THEN Put(connections, local.connectionId,
                     [connection EXCEPT !.subscriptions =
                        WithoutSubscription(connection.subscriptions,
                                            subscription)])
            ELSE connections
     /\ WsGoOn(h, IF ok THEN [local EXCEPT !.pc = "push",
                                           !.queue = <<"unsubscribed">>]
                        ELSE Throw(local))
     /\ UNCHANGED outsideWs

\* A push of a handler that is past its first store call.
Push(h, outcome) ==
  /\ wsResponse = NoWsReply
  /\ ws[h].pc = "push"
  /\ WsGoOn(h, PostToConnection(ws[h], outcome))
  /\ UNCHANGED <<connections, outsideWs>>

\* sendToConnection after a 410: the DeleteCommand of the stale record; if it
\* throws, the exception leaves sendToConnection.
StaleDelete(h, ok) ==
  /\ wsResponse = NoWsReply
  /\ ws[h].pc = "stale_delete"
  /\ connections' = IF ok THEN Delete(connections, ws[h].connectionId)
                          ELSE connections
  /\ WsGoOn(h, IF ok THEN AfterSend(ws[h]) ELSE Throw(ws[h]))
  /\ UNCHANGED outsideWs

\* The API gateway takes the result of the invocation.
WsRespond ==
  /\ wsResponse # NoWsReply
  /\ wsResponse' = NoWsReply
  /\ UNCHANGED <<connections, ws, outsideWs>>

QuietWs ==
  /\ connections = <<>>
  /\ ws = [h \in WsHandlers |-> IdleWs]
  /\ wsResponse = NoWsReply

WsStart(h) ==
  \/ \E c \in ConnectionIds, ok \in BOOLEAN : Connect(h, c, ok)
  \/ \E c \in ConnectionIds, ok \in BOOLEAN : Disconnect(h, c, ok)
  \/ \E c \in ConnectionIds : InvalidMessage(h, c)
  \/ \E c \in ConnectionIds, m \in Messages, outcome \in PushOutcomes :
       Notify(h, c, m[1], outcome)
  \/ \E c \in ConnectionIds, m \in Messages, ok \in BOOLEAN :
       GetConnection(h, c, m[1], m[2][1], m[2][2], ok)

WsStep(h) ==
  \/ \E ok \in BOOLEAN : SubscribePut(h, ok)
  \/ \E ok \in BOOLEAN : UnsubscribePut(h, ok)
  \/ \E outcome \in PushOutcomes : Push(h, outcome)
  \/ \E ok \in BOOLEAN : StaleDelete(h, ok)

\* ================================================================ watchlist
\* watchlist.ts: addToWatchlist, removeFromWatchlist and updateWatchlistItem
\* over the watchlists table, keyed by (userId, symbol).  Two requests may be
\* in flight together; a handler gives way at each await.
WlHandlers == {1, 2}
WatchUserIds == {"u1", "u2"}

\* A JSON value of the request body or of an item: a missing attribute, null,
\* or a string.
Undefined == [type |-> "undefined", value |-> ""]
Null == [type |-> "null", value |-> ""]
Str(s) == [type |-> "string", value |-> s]

\* The symbols an add may carry: an empty string, two spellings of a listed
\* symbol, a symbol no exchange lists, and a value that is not a string.  The
\* symbols of the path of a remove or an update: a listed and an unlisted one.
NotAString == [type |-> "number", value |-> "123"]
SymbolInputs == {Str(""), Str("aapl"), Str("AAPL"), Str("zzzz"), NotAString}
PathSymbols == {"aapl", "zzzz"}
Listed == {"AAPL"}
AddNotes == {Undefined, Str("n1")}
UpdateNotes == {Str("n2")}
\* new Date().toISOString() at the time of the request.
Times == {"t1", "t2"}

\* String.prototype.toUpperCase over the symbols above.
toUpperCase(s) ==
  CASE s = "aapl" -> "AAPL"
    [] s = "zzzz" -> "ZZZZ"
    [] s = "intraday" -> "INTRADAY"
    [] s = "nasdaq" -> "NASDAQ"
    [] s = "all" -> "ALL"
    [] OTHER -> s

\* YahooFinanceService.getQuote: the quote of a listed symbol when the
\* service answers, null otherwise; every error is caught and gives null.
getQuote(symbol, up) == IF up /\ symbol \in Listed THEN {symbol} ELSE {}

\* notes || null
OrNull(notes) ==
  IF notes.type = "string" /\ notes.value # "" THEN notes ELSE Null

WatchlistItem(userId, symbol, addedAt, notes) ==
  [userId |-> userId, symbol |-> symbol, addedAt |-> addedAt, notes |-> notes]

WatchKey(userId, symbol) == <<userId, toUpperCase(symbol)>>

PutAlways(table, key, item) == {Put(table, key, item)}

\* PutCommand with ConditionExpression attribute_not_exists(userId) AND
\* attribute_not_exists(symbol): the table after the write, or nothing when
\* an item with this key exists (ConditionalCheckFailedException).
PutIfNotExists(table, key, item) ==
  IF key \in DOMAIN table THEN {} ELSE {Put(table, key, item)}

IdleWl ==
  [pc |-> "idle", userId |-> "", symbol |-> "", notes |-> Undefined,
   existing |-> {}]
NoWlReply == [status |-> 0, message |-> <<>>]
WlReply(status, message) == [status |-> status, message |-> message]

WlInFlight == {h \in WlHandlers : wl[h].pc # "idle"}
WlFirstIdle(h) ==
  wl[h].pc = "idle" /\ \A g \in WlHandlers : g < h => wl[g].pc # "idle"

\* What watchlist.ts never touches.
outsideWatch == <<tradingVars, moversVars, wsVars, uuids, marketVars>>

\* The handler returns a response.
WlReturn(h, status, message) ==
  /\ wl' = [wl EXCEPT ![h] = IdleWl]
  /\ wlResponse' = WlReply(status, message)

\* The handler goes on to its next await.
WlGoOn(h, local) ==
  /\ wl' = [wl EXCEPT ![h] = local]
  /\ UNCHANGED wlResponse

AddWithoutQuote(h, userId, symbol, notes, up) ==
  /\ wlResponse = NoWlReply
  /\ WlFirstIdle(h)
  /\ IF symbol.value = ""
     THEN WlReturn(h, 400, <<"Symbol is required">>)
     ELSE WlGoOn(h, [IdleWl EXCEPT !.pc = "add_put", !.userId = userId,
                                  !.symbol = symbol.value, !.notes = notes])
  /\ UNCHANGED <<watchlists, outsideWatch>>

\* addToWatchlist up to the answer of the quote lookup.  The route supplies
\* userId and the body is JSON.
AddToWatchlistStart(h, userId, symbol, notes, up) ==
  /\ wlResponse = NoWlReply
  /\ WlFirstIdle(h)
  /\ IF symbol.value = ""
     THEN WlReturn(h, 400, <<"Symbol is required">>)
     ELSE IF symbol.type # "string"
     THEN \* toUpperCase is not a function: thrown inside the inner try
          WlReturn(h, 400,
                   <<"Unable to find stock data for symbol: ", symbol.value>>)
     ELSE IF getQuote(toUpperCase(symbol.value), up) = {}
     THEN WlReturn(h, 400, <<"Invalid stock symbol: ", symbol.value>>)
     ELSE WlGoOn(h, [IdleWl EXCEPT !.pc = "add_put", !.userId = userId,
                                  !.symbol = symbol.value, !.notes = notes])
  /\ UNCHANGED <<watchlists, outsideWatch>>

\* addToWatchlist: the conditional PutCommand.  The send may throw for another
\* reason than the condition (ok = FALSE).
AddToWatchlistPut(h, now, ok) ==
  /\ wlResponse = NoWlReply
  /\ wl[h].pc = "add_put"
  /\ LET key == WatchKey(wl[h].userId, wl[h].symbol)
         watchlistItem ==
           WatchlistItem(wl[h].userId, toUpperCase(wl[h].symbol), now,
                         wl[h].notes)
         written == PutIfNotExists(watchlists, key, watchlistItem)
     IN IF ~ok
        THEN /\ WlReturn(h, 500, <<"Failed to add stock to watchlist">>)
             /\ UNCHANGED watchlists
        ELSE IF written = {}
        THEN /\ WlReturn(h, 409, <<"Stock already exists in watchlist">>)
             /\ UNCHANGED watchlists
        ELSE /\ watchlists' = Item(written)
             /\ WlReturn(h, 201,
                         <<"Stock added to watchlist successfully">>)
  /\ UNCHANGED outsideWatch

\* removeFromWatchlist: the GetCommand that checks the item exists.
RemoveFromWatchlistGet(h, userId, symbol, ok) ==
  /\ wlResponse = NoWlReply
  /\ WlFirstIdle(h)
  /\ IF ~ok
     THEN WlReturn(h, 500, <<"Failed to remove stock from watchlist">>)
     ELSE IF Get(watchlists, WatchKey(userId, symbol)) = {}
     THEN WlReturn(h, 404, <<"Stock not found in watchlist">>)
     ELSE WlGoOn(h, [IdleWl EXCEPT !.pc = "remove_delete",
                                  !.userId = userId, !.symbol = symbol])
  /\ UNCHANGED <<watchlists, outsideWatch>>

\* removeFromWatchlist: the DeleteCommand.
RemoveFromWatchlistDelete(h, ok) ==
  /\ wlResponse = NoWlReply
  /\ wl[h].pc = "remove_delete"
  /\ IF ~ok
     THEN /\ WlReturn(h, 500, <<"Failed to remove stock from watchlist">>)
          /\ UNCHANGED watchlists
     ELSE /\ watchlists' =
               Delete(watchlists, WatchKey(wl[h].userId, wl[h].symbol))
          /\ WlReturn(h, 200,
                      <<"Stock removed from watchlist successfully">>)
  /\ UNCHANGED outsideWatch

\* updateWatchlistItem: the GetCommand that reads the item.
UpdateWatchlistItemGet(h, userId, symbol, notes, ok) ==
  /\ wlResponse = NoWlReply
  /\ WlFirstIdle(h)
  /\ LET existingItem == Get(watchlists, WatchKey(userId, symbol))
     IN IF ~ok
        THEN WlReturn(h, 500, <<"Failed to update watchlist item">>)
        ELSE IF existingItem = {}
        THEN WlReturn(h, 404, <<"Stock not found in watchlist">>)
        ELSE WlGoOn(h, [IdleWl EXCEPT !.pc = "update_put",
                                     !.userId = userId, !.symbol = symbol,
                                     !.notes = notes,
                                     !.existing = existingItem])
  /\ UNCHANGED <<watchlists, outsideWatch>>

\* updateWatchlistItem: the PutCommand of the item read with its new notes.
UpdateWatchlistItemPut(h, ok) ==
  /\ wlResponse = NoWlReply
  /\ wl[h].pc = "update_put"
  /\ IF ~ok
     THEN /\ WlReturn(h, 500, <<"Failed to update watchlist item">>)
          /\ UNCHANGED watchlists
     ELSE LET updatedItem ==
                [Item(wl[h].existing) EXCEPT !.notes = OrNull(wl[h].notes)]
          IN /\ watchlists' =
                  Put(watchlists, <<updatedItem.userId, updatedItem.symbol>>,
                      updatedItem)
             /\ WlReturn(h, 200, <<"Watchlist item updated successfully">>)
  /\ UNCHANGED outsideWatch

\* The API gateway takes the response.
WlRespond ==
  /\ wlResponse # NoWlReply
  /\ wlResponse' = NoWlReply
  /\ UNCHANGED <<watchlists, wl, outsideWatch>>

QuietWatch ==
  /\ watchlists = <<>>
  /\ wl = [h \in WlHandlers |-> IdleWl]
  /\ wlResponse = NoWlReply

WlStart(h) ==
  \/ \E u \in WatchUserIds, s \in SymbolInputs, n \in AddNotes,
        up \in BOOLEAN : AddToWatchlistStart(h, u, s, n, up)
  \/ \E u \in WatchUserIds, s \in PathSymbols, ok \in BOOLEAN :
        RemoveFromWatchlistGet(h, u, s, ok)
  \/ \E u \in WatchUserIds, s \in PathSymbols, n \in UpdateNotes,
        ok \in BOOLEAN : UpdateWatchlistItemGet(h, u, s, n, ok)

WlStep(h) ==
  \/ \E now \in Times, ok \in BOOLEAN : AddToWatchlistPut(h, now, ok)
  \/ \E ok \in BOOLEAN : RemoveFromWatchlistDelete(h, ok)
  \/ \E ok \in BOOLEAN : UpdateWatchlistItemPut(h, ok)

\* --------------------------------------------------------- specifications
Start(h) ==
  \/ \E u \in UserIds, t \in BuyInputs, ok \in BOOLEAN :
        BuyStart(h, u, t[1], t[2], t[3], ok)
  \/ \E u \in UserIds, t \in SellInputs, ok \in BOOLEAN :
        SellStart(h, u, t[1], t[2], t[3], ok)
  \/ \E e \in Emails \cup {NoEmail}, ok \in BOOLEAN : CreateUserStart(h, e, ok)
  \/ \E u \in UserIds, b \in NewBalances, ok \in BOOLEAN :
        UpdateUserBalancePut(h, u, b, ok)

Step(h) ==
  \/ BuyGetPosition(h)
  \/ BuyCommit(h)
  \/ SellGetUser(h)
  \/ SellCommit(h)
  \/ \E u \in UserIds : CreateUserPut(h, u)
  \/ UpdateUserBalanceGet(h)
  \/ StoreFailure(h)

\* ============================================== market data and GET /movers
\* The market-data fetch job (its storeMoversForExchange writes the movers
\* table) and the GET /movers handler that reads the table.
\* TRACKED_SYMBOLS, in the order of the list.
TrackedSymbols == <<"AAPL", "CBA.AX", "BHP.AX">>
\* .slice(0, 50) per exchange, .slice(0, 100) across all exchanges.
ExchangeTop == 50
AllTop == 100
\* GET /movers: the limit when the request names none.
DefaultLimit == 20
\* The symbols in string order, the order of the sort keys of one rank.
SymbolOrder == <<"AAPL", "BHP.AX", "CBA.AX">>
OrderIndex(symbol) == CHOOSE k \in DOMAIN SymbolOrder : SymbolOrder[k] = symbol

\* now.toISOString() of the runs of the job: two runs on one day.
FetchTimes ==
  <<[date |-> "2024-01-01", timestamp |-> "2024-01-01T10:00"],
    [date |-> "2024-01-01", timestamp |-> "2024-01-01T10:05"]>>

\* What getQuote answers for a symbol in a run: null, or a quote with one of
\* these regularMarketChangePercent; regularMarketPrice is 100 throughout.
QuotedChanges ==
  [symbol \in {"AAPL", "CBA.AX", "BHP.AX"} |->
     CASE symbol = "AAPL" -> {{}, {0}, {2}}
       [] symbol = "CBA.AX" -> {{}, {1}, {3}}
       [] OTHER -> {{2}, {-4}}]
QuoteSets ==
  {q \in [DOMAIN QuotedChanges -> UNION {QuotedChanges[s] : s \in DOMAIN QuotedChanges}] :
     \A s \in DOMAIN QuotedChanges : q[s] \in QuotedChanges[s]}

\* getMultipleQuotes: the fulfilled, non-null quotes in the order asked.
getMultipleQuotes(quoted) ==
  LET answered == SelectSeq(TrackedSymbols, LAMBDA s : quoted[s] # {})
  IN [k \in DOMAIN answered |->
        [symbol |-> answered[k], regularMarketPrice |-> RInt(100),
         regularMarketChangePercent |-> RInt(Item(quoted[answered[k]]))]]

getExchange(symbol) == IF symbol \in {"CBA.AX", "BHP.AX"} THEN "ASX" ELSE "NASDAQ"

getSector(symbol) ==
  CASE symbol = "AAPL" -> "Technology"
    [] symbol = "CBA.AX" -> "Financial"
    [] symbol = "BHP.AX" -> "Materials"
    [] OTHER -> "Other"

\* calculateAndStoreMovers: the quotes as movers, the unchanged ones dropped,
\* sorted by |changePercent| descending.
QuoteMovers(quotes, timestamp) ==
  LET all == [k \in DOMAIN quotes |->
                [symbol |-> quotes[k].symbol,
                 exchange |-> getExchange(quotes[k].symbol),
                 sector |-> getSector(quotes[k].symbol),
                 price |-> quotes[k].regularMarketPrice,
                 changePercent |-> quotes[k].regularMarketChangePercent,
                 timestamp |-> timestamp]]
  IN SortMovers(SelectSeq(all, LAMBDA m : m.changePercent # RInt(0)))

SliceTo(list, n) == SubSeq(list, 1, IF Len(list) < n THEN Len(list) ELSE n)

\* `PERIOD#${period}#EX#${exchange}`
MoversPk(period, exchange) == <<"PERIOD", period, "EX", exchange>>

\* Mutant: the sort key is the rank alone.
RankOnlyItem(pk, mover, rank) ==
  [pk |-> pk, sk |-> <<"RANK", rank>>,
   symbol |-> mover.symbol, exchange |-> mover.exchange,
   sector |-> mover.sector, price |-> mover.price,
   changePercent |-> mover.changePercent, timestamp |-> mover.timestamp,
   rank |-> rank]

\* storeMoversForExchange: the item of the mover at position rank of the list.
\* The rank is padded to four digits in the sort key, which orders the keys
\* as the numbers do.
StoredMover(pk, mover, rank) ==
  [pk |-> pk, sk |-> <<"RANK", rank, "SYMB", mover.symbol>>,
   symbol |-> mover.symbol, exchange |-> mover.exchange,
   sector |-> mover.sector, price |-> mover.price,
   changePercent |-> mover.changePercent, timestamp |-> mover.timestamp,
   rank |-> rank]

\* storeMoversForExchange: the BatchWriteCommands of one list, in order.
RECURSIVE StoreBatches(_, _, _)
StoreBatches(pk, list, i) ==
  IF i >= Len(list) THEN <<>>
  ELSE LET batch == Batch(list, i)
       IN <<[k \in DOMAIN batch |-> StoredMover(pk, batch[k], i + k)]>>
            \o StoreBatches(pk, list, i + BatchSize)

\* calculateAndStoreMovers: the writes of every exchange, then those of
\* the top movers across all exchanges.
RECURSIVE ExchangeBatches(_, _)
ExchangeBatches(list, exchanges) ==
  IF exchanges = <<>> THEN <<>>
  ELSE StoreBatches(MoversPk("INTRADAY", Head(exchanges)),
                    SliceTo(SelectSeq(list,
                                      LAMBDA m : m.exchange = Head(exchanges)),
                            ExchangeTop),
                    0)
         \o ExchangeBatches(list, Tail(exchanges))

MoverBatches(list) ==
  ExchangeBatches(list, Exchanges(list))
    \o StoreBatches(MoversPk("INTRADAY", "ALL"), SliceTo(list, AllTop), 0)

\* The locals of the job; runs and thrown count the runs started and the
\* runs that ended with an exception.
IdleFetch ==
  [pc |-> "idle", runs |-> 0, thrown |-> 0, result |-> "none",
   quotes |-> <<>>, i |-> 0, writes |-> <<>>]

FetchReturn(result) ==
  [IdleFetch EXCEPT !.runs = fetch.runs, !.result = result,
                    !.thrown = IF result = "error" THEN fetch.thrown + 1
                                                   ELSE fetch.thrown]

\* What the fetch job never touches.
outsideFetch ==
  <<tradingVars, wsVars, watchVars, uuids, run, moversReply>>

\* handler: the quotes of the tracked symbols; none at all ends the run.
FetchStart(quoted) ==
  LET quotes == getMultipleQuotes(quoted)
  IN /\ fetch.pc = "idle"
     /\ fetch.runs < Len(FetchTimes)
     /\ fetch' =
          IF Len(quotes) = 0
            THEN [IdleFetch EXCEPT !.runs = fetch.runs + 1,
                                   !.thrown = fetch.thrown,
                                   !.result =
                                      "No data received from Yahoo Finance"]
            ELSE [IdleFetch EXCEPT !.pc = "intraday", !.runs = fetch.runs + 1,
                                   !.thrown = fetch.thrown,
                                   !.result = "running", !.quotes = quotes]
     /\ UNCHANGED <<intraday, bars, movers, outsideFetch>>

\* storeIntradayData: one BatchWriteCommand; a failure ends the run.
StoreIntradayBatch(ok) ==
  LET batch == Batch(fetch.quotes, fetch.i)
      timestamp == FetchTimes[fetch.runs].timestamp
  IN /\ fetch.pc = "intraday"
     /\ IF ok
          THEN /\ intraday' =
                    intraday \cup
                      {[symbol |-> batch[k].symbol, timestamp |-> timestamp,
                        close |-> batch[k].regularMarketPrice] :
                         k \in DOMAIN batch}
               /\ fetch' =
                    IF fetch.i + BatchSize < Len(fetch.quotes)
                      THEN [fetch EXCEPT !.i = fetch.i + BatchSize]
                      ELSE [fetch EXCEPT !.pc = "daily", !.i = 1]
          ELSE /\ intraday' = intraday
               /\ fetch' = FetchReturn("error")
     /\ UNCHANGED <<bars, movers, outsideFetch>>

\* What storeDailyData meets for one quote: historical data with a close (0 for
\* a missing one), no historical data, or nothing to write (no open, or an
\* exception, which is caught and logged).
DailyOutcomes == {<<"historical", 99>>, <<"historical", 0>>, <<"fallback", 0>>,
                  <<"nothing", 0>>}

\* storeDailyData: the bar of one quote; after the last one the movers are
\* computed.
StoreDailyBar(outcome) ==
  LET quote == fetch.quotes[fetch.i]
      date == FetchTimes[fetch.runs].date
      close == IF outcome[1] = "historical" /\ outcome[2] # 0
                 THEN outcome[2] ELSE quote.regularMarketPrice.n
      writes == MoverBatches(QuoteMovers(fetch.quotes,
                                         FetchTimes[fetch.runs].timestamp))
  IN /\ fetch.pc = "daily"
     /\ bars' =
          IF outcome[1] = "nothing" THEN bars
          ELSE Put(bars, <<quote.symbol, date>>,
                   [symbol |-> quote.symbol, date |-> date, close |-> close])
     /\ fetch' =
          IF fetch.i < Len(fetch.quotes)
            THEN [fetch EXCEPT !.i = fetch.i + 1]
          ELSE IF writes = <<>> THEN FetchReturn("ok")
          ELSE [fetch EXCEPT !.pc = "movers", !.i = 0, !.writes = writes]
     /\ UNCHANGED <<intraday, movers, outsideFetch>>

\* storeMoversForExchange: one BatchWriteCommand of put requests; a failure
\* ends the run.
StoreMoversBatch(ok) ==
  /\ fetch.pc = "movers"
  /\ IF ok
       THEN /\ movers' = PutAll(movers, Head(fetch.writes))
            /\ fetch' =
                 IF Len(fetch.writes) > 1
                   THEN [fetch EXCEPT !.writes = Tail(fetch.writes)]
                   ELSE FetchReturn("ok")
       ELSE /\ movers' = movers
            /\ fetch' = FetchReturn("error")
  /\ UNCHANGED <<intraday, bars, outsideFetch>>

\* ------------------------------------------------------------- GET /movers
\* The query string parameters tried.
PeriodParams == {Undefined, Str("intraday")}
ExchangeParams == {Undefined, Str("nasdaq"), Str("all")}
SectorParams == {Undefined, Str("Financial")}
LimitParams == {Undefined, Str("1")}

\* A parameter that is set and not empty.
Given(param) == param.type = "string" /\ param.value # ""

\* param || default
OrDefault(param, default) == IF Given(param) THEN param.value ELSE default

\* limit ? Math.min(parseInt(limit), 100) : 20
LimitOf(param) == IF param = Str("1") THEN 1 ELSE DefaultLimit

NoMoversReply == [status |-> 0, body |-> <<>>]

\* The keys of a partition in the order of the sort key.
SortKeyBefore(a, b) ==
  \/ a[2][2] < b[2][2]
  \/ a[2][2] = b[2][2] /\ OrderIndex(a[2][4]) < OrderIndex(b[2][4])
RECURSIVE InSortKeyOrder(_)
InSortKeyOrder(keys) ==
  IF keys = {} THEN <<>>
  ELSE LET first == CHOOSE a \in keys : \A b \in keys \ {a} : SortKeyBefore(a, b)
       IN <<first>> \o InSortKeyOrder(keys \ {first})

Positive(x) == RLess(RInt(0), x)
Negative(x) == RLess(x, RInt(0))

\* The QueryCommand: the first Limit items of the partition by sort key, then
\* the FilterExpression on those.
QueryMovers(pk, limit, sector, gainersOnly, losersOnly) ==
  LET keys == InSortKeyOrder({k \in DOMAIN movers : k[1] = pk})
      read == SliceTo([k \in DOMAIN keys |-> movers[keys[k]]], limit)
  IN SelectSeq(read,
       LAMBDA item :
         /\ Given(sector) => item.sector = sector.value
         /\ IF gainersOnly THEN Positive(item.changePercent)
            ELSE IF losersOnly THEN Negative(item.changePercent)
            ELSE TRUE)

\* response.Items.map(item => ({symbol, exchange, ...}))
AsMover(item) ==
  [symbol |-> item.symbol, exchange |-> item.exchange, sector |-> item.sector,
   price |-> item.price, changePercent |-> item.changePercent,
   rank |-> item.rank, timestamp |-> item.timestamp]

\* new Date().toISOString() in generateMockData.
MockTime == "now"

MockMover(symbol, exchange, sector, price, changePercent, rank) ==
  [symbol |-> symbol, exchange |-> exchange, sector |-> sector,
   price |-> Norm(price, 100), changePercent |-> Norm(changePercent, 100),
   rank |-> rank, timestamp |-> MockTime]

generateMockData(exchange, limit, gainersOnly, losersOnly, sector) ==
  LET asx == exchange = "ASX"
      given == Given(sector)
      mockData ==
        <<MockMover(IF asx THEN "BHP.AX" ELSE "AAPL", exchange,
                    IF given THEN sector.value ELSE "Materials",
                    4520, 536, 1),
          MockMover(IF asx THEN "CBA.AX" ELSE "MSFT", exchange,
                    IF given THEN sector.value ELSE "Financials",
                    10250, 427, 2),
          MockMover(IF asx THEN "CSL.AX" ELSE "GOOGL", exchange,
                    IF given THEN sector.value ELSE "Healthcare",
                    27580, 0 - 299, 3),
          MockMover(IF asx THEN "WES.AX" ELSE "TSLA", exchange,
                    IF given THEN sector.value ELSE "Consumer Staples",
                    5845, 0 - 519, 4)>>
      byChange ==
        IF gainersOnly
          THEN SelectSeq(mockData, LAMBDA m : Positive(m.changePercent))
        ELSE IF losersOnly
          THEN SelectSeq(mockData, LAMBDA m : Negative(m.changePercent))
        ELSE mockData
      bySector ==
        IF given THEN SelectSeq(byChange, LAMBDA m : m.sector = sector.value)
                 ELSE byChange
  IN SliceTo(bySector, limit)

\* Mutant: the mock rows also stand in for a failed query.
MoversOrMockOnError(ok, items, mock) ==
  IF ok /\ items # <<>>
    THEN [status |-> 200, body |-> [k \in DOMAIN items |-> AsMover(items[k])]]
    ELSE [status |-> 200, body |-> mock]

\* handler: the rows of the query, the mock rows if it returned none, 500 if
\* it threw.
MoversOrMock(ok, items, mock) ==
  IF ~ok THEN [status |-> 500, body |-> <<>>]
  ELSE IF Len(items) = 0 THEN [status |-> 200, body |-> mock]
  ELSE [status |-> 200, body |-> [k \in DOMAIN items |-> AsMover(items[k])]]

GetMovers(period, exchange, sector, gainersOnly, losersOnly, limit, ok) ==
  LET pk == MoversPk(toUpperCase(OrDefault(period, "DAILY")),
                     toUpperCase(OrDefault(exchange, "ASX")))
      items == QueryMovers(pk, LimitOf(limit), sector, gainersOnly, losersOnly)
      mock == generateMockData(OrDefault(exchange, "ASX"), LimitOf(limit),
                               gainersOnly, losersOnly, sector)
  IN /\ moversReply = NoMoversReply
     /\ moversReply' = MoversOrMock(ok, items, mock)
     /\ UNCHANGED <<intraday, fetch, moversVars, tradingVars, wsVars,
                    watchVars, uuids>>

\* The API gateway takes the response.
MoversRespond ==
  /\ moversReply # NoMoversReply
  /\ moversReply' = NoMoversReply
  /\ UNCHANGED <<intraday, fetch, moversVars, tradingVars, wsVars, watchVars,
                 uuids>>

QuietMarket ==
  /\ intraday = {}
  /\ fetch = IdleFetch
  /\ moversReply = NoMoversReply

\* Every table is empty when the application is deployed.
Init == InitTrading /\ QuietMovers /\ QuietWs /\ QuietWatch /\ QuietMarket

Next == Respond \/ \E h \in Handlers : Start(h) \/ Step(h)

Spec == Init /\ [][Next]_vars

\* Handlers run one at a time: a request starts only when none is running.
StartSeq(h) ==
  \/ /\ InFlight = {}
     /\ \E u \in UserIds, t \in BuyInputs, ok \in BOOLEAN :
          BuyStart(h, u, t[1], t[2], t[3], ok)
  \/ /\ InFlight = {}
     /\ \E u \in UserIds, t \in SellInputs, ok \in BOOLEAN :
          SellStart(h, u, t[1], t[2], t[3], ok)
  \/ /\ InFlight = {}
     /\ \E e \in Emails \cup {NoEmail}, ok \in BOOLEAN :
          CreateUserStart(h, e, ok)
  \/ /\ InFlight = {}
     /\ \E u \in UserIds, b \in NewBalances, ok \in BOOLEAN :
          UpdateUserBalancePut(h, u, b, ok)

NextSeq == Respond \/ \E h \in Handlers : StartSeq(h) \/ Step(h)

SpecSeq == Init /\ [][NextSeq]_vars

\* users.ts alone, with two requests in flight at most, two emails and two
\* user ids to hand out.
Uuids == {"u1", "u2"}
UserEmails == {"a@x.io", "b@x.io"}

InitUsers ==
  /\ QuietTrading
  /\ uuids = Uuids
  /\ QuietMovers
  /\ QuietWs
  /\ QuietWatch
  /\ QuietMarket

UsersStart(h) ==
  \/ \E e \in UserEmails \cup {NoEmail}, ok \in BOOLEAN :
        CreateUserStart(h, e, ok)
  \/ \E u \in Uuids, b \in NewBalances, ok \in BOOLEAN :
        UpdateUserBalancePut(h, u, b, ok)

UsersStep(h) ==
  \/ \E u \in Uuids : CreateUserPut(h, u)
  \/ UpdateUserBalanceGet(h)
  \/ StoreFailure(h)

NextUsers == Respond \/ \E h \in Handlers : UsersStart(h) \/ UsersStep(h)

SpecUsers == InitUsers /\ [][NextUsers]_vars

\* The scheduled calculator alone, over a bars table filled by the ingestion.
InitMovers ==
  /\ InitTrading
  /\ QuietWs
  /\ QuietWatch
  /\ QuietMarket
  /\ bars \in BarTables
  /\ movers = <<>>
  /\ run = IdleRun

NextMovers ==
  \/ \E scanOk \in BOOLEAN, failing \in ReadFailures :
        CalcStart(scanOk, failing)
  \/ \E ok \in BOOLEAN : DeleteQuery(ok)
  \/ \E ok \in BOOLEAN : DeleteBatch(ok)
  \/ \E ok \in BOOLEAN : InsertBatch(ok)

SpecMovers == InitMovers /\ [][NextMovers]_vars

\* The websocket handlers, run one at a time: a route is invoked only when
\* no invocation is running.
WsStartSeq(h) ==
  \/ /\ WsInFlight = {}
     /\ \E c \in ConnectionIds, ok \in BOOLEAN : Connect(h, c, ok)
  \/ /\ WsInFlight = {}
     /\ \E c \in ConnectionIds, ok \in BOOLEAN : Disconnect(h, c, ok)
  \/ /\ WsInFlight = {}
     /\ \E c \in ConnectionIds : InvalidMessage(h, c)
  \/ /\ WsInFlight = {}
     /\ \E c \in ConnectionIds, m \in Messages, outcome \in PushOutcomes :
          Notify(h, c, m[1], outcome)
  \/ /\ WsInFlight = {}
     /\ \E c \in ConnectionIds, m \in Messages, ok \in BOOLEAN :
          GetConnection(h, c, m[1], m[2][1], m[2][2], ok)

NextWsSeq == WsRespond \/ \E h \in WsHandlers : WsStartSeq(h) \/ WsStep(h)

SpecWsSeq == Init /\ [][NextWsSeq]_vars

\* Two websocket invocations in flight together on one connection: the
\* Lambda runs each event in its own invocation, and a handler gives way at
\* each await (websocket.ts 46-71, 141-183, 202-230).
SharedConnectionIds == {"c1"}
SharedMessages ==
  {<<"subscribe", <<"movers", {}>>>>, <<"subscribe", <<"", {"AAPL"}>>>>,
   <<"unsubscribe", <<"movers", {}>>>>}
SharedPushOutcomes == {"ok", "gone"}

WsStartShared(h) ==
  \/ \E c \in SharedConnectionIds, ok \in BOOLEAN : Connect(h, c, ok)
  \/ \E c \in SharedConnectionIds, ok \in BOOLEAN : Disconnect(h, c, ok)
  \/ \E c \in SharedConnectionIds, m \in SharedMessages, ok \in BOOLEAN :
       GetConnection(h, c, m[1], m[2][1], m[2][2], ok)

WsStepShared(h) ==
  \/ \E ok \in BOOLEAN : SubscribePut(h, ok)
  \/ \E ok \in BOOLEAN : UnsubscribePut(h, ok)
  \/ \E outcome \in SharedPushOutcomes : Push(h, outcome)
  \/ \E ok \in BOOLEAN : StaleDelete(h, ok)

NextWs == WsRespond \/ \E h \in WsHandlers : WsStartShared(h) \/ WsStepShared(h)

SpecWs == Init /\ [][NextWs]_vars

\* The market-data fetch job, run by its schedule one run at a time.
NextFetch ==
  \/ \E quoted \in QuoteSets : FetchStart(quoted)
  \/ \E ok \in BOOLEAN : StoreIntradayBatch(ok)
  \/ \E outcome \in DailyOutcomes : StoreDailyBar(outcome)
  \/ \E ok \in BOOLEAN : StoreMoversBatch(ok)

SpecFetch == Init /\ [][NextFetch]_vars

\* The movers table after the writes of a run of the fetch job that
\* completed.
RECURSIVE PutBatches(_, _)
PutBatches(table, batches) ==
  IF batches = <<>> THEN table
  ELSE PutBatches(PutAll(table, Head(batches)), Tail(batches))

AfterFetch(table, quoted, k) ==
  PutBatches(table,
             MoverBatches(QuoteMovers(getMultipleQuotes(quoted),
                                      FetchTimes[k].timestamp)))

\* The movers tables GET /movers may meet: empty, as one completed run of
\* the fetch job leaves it, or as two runs that got every quote leave it.
FullQuoteSets == {q \in QuoteSets : \A s \in DOMAIN q : q[s] # {}}
MoverTables ==
  {<<>>}
    \cup {AfterFetch(<<>>, q, 1) : q \in QuoteSets}
    \cup {AfterFetch(AfterFetch(<<>>, q[1], 1), q[2], 2) :
            q \in FullQuoteSets \X FullQuoteSets}

InitMoversApi ==
  /\ InitTrading
  /\ QuietWs
  /\ QuietWatch
  /\ QuietMarket
  /\ bars = <<>>
  /\ run = IdleRun
  /\ movers \in MoverTables

\* GET /movers, one request after the other.
NextMoversApi ==
  \/ \E period \in PeriodParams, exchange \in ExchangeParams,
        sector \in SectorParams, gainersOnly \in BOOLEAN,
        losersOnly \in BOOLEAN, limit \in LimitParams, ok \in BOOLEAN :
        GetMovers(period, exchange, sector, gainersOnly, losersOnly, limit, ok)
  \/ MoversRespond

SpecMoversApi == InitMoversApi /\ [][NextMoversApi]_vars

\* The watchlist handlers, with two requests in flight at most.
NextWatch == WlRespond \/ \E h \in WlHandlers : WlStart(h) \/ WlStep(h)

SpecWatch == Init /\ [][NextWatch]_vars

\* ================================================================ claims
ValidBuyInputs == {t \in BuyInputs : ValidTrade(t[1], t[2], t[3])}
ValidSellInputs == {t \in SellInputs : ValidTrade(t[1], t[2], t[3])}
LastTransaction == transactions[Len(transactions)]

\* ----------------------------------------------------------------- C1
BuyAllEffects(h) ==
  /\ portfolios' = Put(portfolios, <<req[h].userId, req[h].symbol>>,
                       BuyPosition(position[h], req[h]))
  /\ transactions' =
       Append(transactions,
              [userId |-> req[h].userId, transactionId |-> Len(transactions) + 1,
               symbol |-> req[h].symbol, type |-> "BUY",
               quantity |-> req[h].quantity, price |-> req[h].price,
               totalAmount |-> req[h].quantity * req[h].price])
  /\ users' = Put(users, req[h].userId,
                  [Item(user[h]) EXCEPT
                     !.virtualBalance = @ - req[h].quantity * req[h].price])

\* C1: a buy that reaches its commit either makes all three of its effects
\* visible in one step (position written, BUY transaction appended, balance
\* debited by qty*price) or, when the commit fails, none of them.
C1_BuyIsAtomic ==
  [][\A h \in Handlers :
       (pc[h] = "buy_commit" /\ pc'[h] # "buy_commit")
         => (BuyAllEffects(h) \/ UNCHANGED store)]_vars

C1_Witness ==
  /\ response = Response(200, "Stock purchased successfully")
  /\ LastTransaction.type = "BUY"
  /\ <<LastTransaction.userId, LastTransaction.symbol>> \in DOMAIN portfolios

\* ----------------------------------------------------------------- C2
\* C2: with handlers run one at a time, a valid buy whose qty*price exceeds
\* the stored virtualBalance is answered 400 "Insufficient balance", a buy
\* for an unknown user is answered 404, and in both cases no table changes.
C2_BuyOverBalanceRejected ==
  [][\A h \in Handlers, u \in UserIds, t \in ValidBuyInputs :
       BuyStart(h, u, t[1], t[2], t[3], TRUE)
         => /\ u \notin DOMAIN users
                 => /\ response' = Response(404, "User not found")
                    /\ UNCHANGED store
            /\ (u \in DOMAIN users /\ t[2] * t[3] > users[u].virtualBalance)
                 => /\ response' = Response(400, "Insufficient balance")
                    /\ pc'[h] = "idle"
                    /\ UNCHANGED store]_vars

C2_Witness ==
  /\ response = Response(400, "Insufficient balance")
  /\ \E u \in DOMAIN users : users[u].virtualBalance < InitialBalance

\* ----------------------------------------------------------------- C3
\* C3: with handlers run one at a time, a valid sell of more shares than the
\* stored position holds is answered 400, a sell with no stored position is
\* answered 404, and in both cases no table changes.
C3_SellOverPositionRejected ==
  [][\A h \in Handlers, u \in UserIds, t \in ValidSellInputs :
       SellStart(h, u, t[1], t[2], t[3], TRUE)
         => /\ <<u, t[1]>> \notin DOMAIN portfolios
                 => /\ response' = Response(404, "No position found for this stock")
                    /\ pc'[h] = "idle"
                    /\ UNCHANGED store
            /\ (/\ <<u, t[1]>> \in DOMAIN portfolios
                /\ t[2] > portfolios[<<u, t[1]>>].quantity)
                 => /\ response' = Response(400, "Insufficient shares to sell")
                    /\ pc'[h] = "idle"
                    /\ UNCHANGED store]_vars

C3_Witness ==
  /\ response = Response(400, "Insufficient shares to sell")
  /\ portfolios # <<>>

\* ----------------------------------------------------------------- C4
\* The committed transactions of one position replayed in commit order:
\* the quantity held, the cost of the buys since the position was last
\* closed, and that cost less the cost basis the sells since then removed.
RECURSIVE Ledger(_, _)
Ledger(key, n) ==
  IF n = 0
  THEN [quantity |-> 0, bought |-> 0, invested |-> RInt(0)]
  ELSE LET prev == Ledger(key, n - 1)
           r == transactions[n]
       IN IF <<r.userId, r.symbol>> # key
          THEN prev
          ELSE IF r.type = "BUY"
          THEN [quantity |-> prev.quantity + r.quantity,
                bought |-> prev.bought + r.quantity * r.price,
                invested |-> RAdd(prev.invested, RInt(r.quantity * r.price))]
          ELSE IF r.quantity >= prev.quantity
          THEN [quantity |-> 0, bought |-> 0, invested |-> RInt(0)]
          ELSE [quantity |-> prev.quantity - r.quantity,
                bought |-> prev.bought,
                invested |->
                  RSub(prev.invested,
                       RDiv(RMul(prev.invested, RInt(r.quantity)),
                            RInt(prev.quantity)))]

\* C4 as stated: the stored totalInvested is the sum of qty*price over the
\* buys since the position was last fully closed.
C4_TotalInvestedIsSumOfBuys ==
  \A key \in DOMAIN portfolios :
    portfolios[key].totalInvested
      = RInt(Ledger(key, Len(transactions)).bought)

\* C4 amended: with handlers run one at a time, the stored totalInvested is
\* the sum of qty*price over the buys since the position was last fully
\* closed, less the proportional cost basis (totalInvested * qty / quantity
\* at the time of the sell) removed by each partial sell since then.
C4_TotalInvestedIsBuysLessSoldBasis ==
  \A key \in DOMAIN portfolios :
    portfolios[key].totalInvested
      = Ledger(key, Len(transactions)).invested

C4_Witness ==
  \E key \in DOMAIN portfolios :
    RLess(portfolios[key].totalInvested,
          RInt(Ledger(key, Len(transactions)).bought))

\* ----------------------------------------------------------------- C5
\* C5: with handlers run one at a time, every stored position has
\* averagePrice * quantity = totalInvested in exact arithmetic.
C5_AverageTimesQuantity ==
  \A key \in DOMAIN portfolios :
    RMul(portfolios[key].averagePrice, RInt(portfolios[key].quantity))
      = portfolios[key].totalInvested

C5_Witness ==
  /\ transactions # <<>>
  /\ LastTransaction.type = "SELL"
  /\ \E key \in DOMAIN portfolios :
       /\ key = <<LastTransaction.userId, LastTransaction.symbol>>
       /\ portfolios[key].averagePrice.d > 1

\* ----------------------------------------------------------------- C6
SellLogged ==
  /\ Len(transactions') = Len(transactions) + 1
  /\ transactions'[Len(transactions')].type = "SELL"

\* C6: with handlers run one at a time, the step that commits a sell of
\* qty leaves quantity - qty shares, totalInvested less
\* totalInvested * qty / quantity and the same averagePrice when
\* qty < quantity, and no position when qty = quantity.
C6_SellLeavesPosition ==
  [][SellLogged =>
       LET r == transactions'[Len(transactions')]
           key == <<r.userId, r.symbol>>
       IN /\ key \in DOMAIN portfolios
          /\ LET old == portfolios[key]
             IN IF r.quantity < old.quantity
                THEN /\ key \in DOMAIN portfolios'
                     /\ portfolios'[key] =
                          [quantity |-> old.quantity - r.quantity,
                           averagePrice |-> old.averagePrice,
                           totalInvested |->
                             RSub(old.totalInvested,
                                  RMul(old.totalInvested,
                                       RDiv(RInt(r.quantity),
                                            RInt(old.quantity))))]
                ELSE /\ r.quantity = old.quantity
                     /\ key \notin DOMAIN portfolios']_vars

C6_Witness ==
  /\ response.message = "Stock sold successfully"
  /\ <<LastTransaction.userId, LastTransaction.symbol>> \in DOMAIN portfolios
  /\ LastTransaction.price
       # portfolios[<<LastTransaction.userId,
                     LastTransaction.symbol>>].averagePrice.n

\* ----------------------------------------------------------------- C7
\* C7: with handlers run one at a time, an accepted sell adds qty*price to
\* the stored virtualBalance, appends exactly one SELL record with
\* totalAmount qty*price, and answers profitLoss = qty*price less the
\* proportional cost basis totalInvested * qty / quantity.
C7_SellCreditsProceeds ==
  [][\A h \in Handlers :
       (pc[h] = "sell_commit"
          /\ response'.message = "Stock sold successfully")
         => LET u == req[h].userId
                key == <<req[h].userId, req[h].symbol>>
                proceeds == req[h].quantity * req[h].price
            IN /\ users'[u].virtualBalance
                    = users[u].virtualBalance + proceeds
               /\ Len(transactions') = Len(transactions) + 1
               /\ \A i \in 1 .. Len(transactions) :
                    transactions'[i] = transactions[i]
               /\ transactions'[Len(transactions')].type = "SELL"
               /\ transactions'[Len(transactions')].quantity = req[h].quantity
               /\ transactions'[Len(transactions')].totalAmount = proceeds
               /\ response'.status = 200
               /\ response'.profitLoss
                    = RSub(RInt(proceeds),
                           RDiv(RMul(portfolios[key].totalInvested,
                                     RInt(req[h].quantity)),
                                RInt(portfolios[key].quantity)))]_vars

C7_Witness ==
  /\ response.status = 200
  /\ response.message = "Stock sold successfully"
  /\ response.profitLoss.n < 0
  /\ LastTransaction.type = "SELL"

\* ----------------------------------------------------------------- C8
\* C8: under every interleaving of the handlers, every stored position has
\* quantity > 0 (a position sold out is deleted, never stored).
C8_QuantityPositive ==
  \A key \in DOMAIN portfolios : portfolios[key].quantity > 0

C8_Witness ==
  /\ transactions # <<>>
  /\ LastTransaction.type = "SELL"
  /\ <<LastTransaction.userId, LastTransaction.symbol>> \notin DOMAIN portfolios
  /\ \E h \in Handlers : pc[h] = "sell_commit"

\* ----------------------------------------------------------------- C9
TradeAnswered ==
  \/ response' = Response(200, "Stock purchased successfully")
  \/ (response'.status = 200 /\ response'.message = "Stock sold successfully")

\* C9: under every interleaving, no step changes or removes a stored
\* transaction; a step in which a buy or sell commits adds exactly one
\* record, and every other step (rejections and failures included) adds none.
C9_LogAppendOnly ==
  [][/\ \A i \in DOMAIN transactions :
          i \in DOMAIN transactions' /\ transactions'[i] = transactions[i]
     /\ IF TradeAnswered
        THEN Cardinality(DOMAIN transactions')
               = Cardinality(DOMAIN transactions) + 1
        ELSE transactions' = transactions]_vars

C9_Witness ==
  /\ Len(transactions) >= 2
  /\ response.status = 200
  /\ transactions[1].type = "BUY"
  /\ LastTransaction.type = "SELL"

\* ---------------------------------------------------------------- C10
TradeCommitted(u) ==
  /\ Len(transactions') = Len(transactions) + 1
  /\ transactions'[Len(transactions')].userId = u

BalanceUpdated(u) ==
  \E h \in Handlers :
    pc[h] = "idle" /\ pc'[h] = "update_get" /\ req'[h].userId = u

Today == Dates[run.today]
DayBefore(date) == Dates[DateIndex(date) - 1]
HasBar(symbol, date) == <<symbol, date>> \in DOMAIN bars
CloseOn(symbol, date) == RInt(bars[<<symbol, date>>].close)
ExactChange(symbol, date) ==
  RSub(CloseOn(symbol, date), CloseOn(symbol, DayBefore(date)))
ExactChangePercent(symbol, date) ==
  RDiv(RMul(ExactChange(symbol, date), RInt(100)),
       CloseOn(symbol, DayBefore(date)))
\* r is x rounded to two decimals: a multiple of 1/100 within 1/200 of x.
RoundedTo2(r, x) ==
  /\ 100 % r.d = 0
  /\ ~RLess([n |-> 1, d |-> 200], RAbs(RSub(r, x)))
Rows == {movers[k] : k \in DOMAIN movers}
RowsOf(exchange, date) ==
  {row \in Rows : row.pk = PartitionKey(exchange) /\ row.date = date}

\* C11: no row of the movers table has |changePercent| below 1.0.
C11_NoSmallMover ==
  \A row \in Rows : ~RLess(RAbs(row.changePercent), RInt(1))

\* A completed run stored a mover of exactly 1.00 percent or more while a
\* symbol with both bars that moved by less than 1 percent got no row.
C11_Witness ==
  /\ run.pc = "idle" /\ run.result = "ok"
  /\ \E row \in Rows : row.date = Today
  /\ \E symbol \in SymbolSet :
       /\ HasBar(symbol, Today) /\ HasBar(symbol, DayBefore(Today))
       /\ RLess(RAbs(ExactChangePercent(symbol, Today)), RInt(1))
       /\ ExactChange(symbol, Today).n # 0
       /\ \A row \in Rows : ~(row.symbol = symbol /\ row.date = Today)

\* C12: every row belongs to a symbol that has a bar on the row's date and on
\* the day before, and carries change = todayClose - yesterdayClose and
\* changePercent = change / yesterdayClose * 100, each rounded to two
\* decimals (closes 40 then 50 give 10 and 25); so a symbol missing either bar
\* has no row.
C12_MoverFromBothBars ==
  \A row \in Rows :
    /\ HasBar(row.symbol, row.date)
    /\ DateIndex(row.date) > 1
    /\ HasBar(row.symbol, DayBefore(row.date))
    /\ RoundedTo2(row.change, ExactChange(row.symbol, row.date))
    /\ RoundedTo2(row.changePercent, ExactChangePercent(row.symbol, row.date))
    /\ (/\ CloseOn(row.symbol, DayBefore(row.date)) = RInt(40)
        /\ CloseOn(row.symbol, row.date) = RInt(50))
         => row.change = RInt(10) /\ row.changePercent = RInt(25)

\* A completed run stored the 40 -> 50 mover, a mover whose percentage had to
\* be rounded, and nothing for a symbol that has today's bar only.
C12_Witness ==
  /\ run.pc = "idle" /\ run.result = "ok"
  /\ \E row \in Rows :
       row.date = Today /\ row.change = RInt(10) /\ row.changePercent = RInt(25)
  /\ \E row \in Rows :
       /\ row.date = Today
       /\ row.changePercent # ExactChangePercent(row.symbol, row.date)
  /\ \E symbol \in SymbolSet :
       /\ HasBar(symbol, Today) /\ ~HasBar(symbol, DayBefore(Today))
       /\ \A row \in Rows : row.symbol # symbol

\* The movers of the running exchange that survived the threshold.
Survivors ==
  {k \in DOMAIN run.moversData :
     run.moversData[k].exchange = Head(run.exchanges)}
Size(k) == RAbs(run.moversData[k].changePercent)
\* The run has just written the last row of an exchange.
ExchangeWritten ==
  /\ run.pc = "insert"
  /\ run'.pc # "insert" \/ run'.exchanges # run.exchanges
  /\ run'.result # "error"

\* C13: when the rows of an exchange are written, they are N = min(limit,
\* survivors) rows of distinct survivors of that exchange with ranks 1..N, each
\* rank once, a smaller rank never having the smaller |changePercent|, and no
\* survivor left out is larger than one that was written.
C13_TopMoversRanked ==
  [][ExchangeWritten =>
       LET written == {row \in Rows' : /\ row.pk = PartitionKey(Head(run.exchanges))
                                       /\ row.date = Today}
           N == IF Cardinality(Survivors) < TopLimit
                  THEN Cardinality(Survivors) ELSE TopLimit
           chosen == {k \in Survivors :
                        \E row \in written :
                          /\ row.symbol = run.moversData[k].symbol
                          /\ row.changePercent = run.moversData[k].changePercent}
       IN /\ Cardinality(written) = N
          /\ Cardinality(chosen) = N
          /\ \A r \in 1 .. N :
               Cardinality({row \in written : row.rank = r}) = 1
          /\ \A row \in written : row.sk = <<"RANK", row.rank, "SYMB", row.symbol>>
          /\ \A a, b \in written :
               a.rank < b.rank =>
                 ~RLess(RAbs(a.changePercent), RAbs(b.changePercent))
          /\ \A k \in Survivors \ chosen, c \in chosen : ~RLess(Size(c), Size(k))
     ]_vars

\* An exchange with more survivors than the limit, of different sizes, has
\* had its first batch written.
C13_Witness ==
  /\ run.pc = "insert" /\ run.i > 0
  /\ Cardinality(Survivors) > TopLimit
  /\ \E a, b \in Survivors : RLess(Size(a), Size(b))
  /\ \E a, b \in Survivors : a # b /\ Size(a) = Size(b)

\* C14: a failed delete (query or batch) is swallowed, the run going on to the
\* inserts with the table as it is; a failed insert ends the run with the
\* error, and the table keeps what the run has deleted and written so far.
C14_DeleteSwallowedInsertFails ==
  [][/\ (DeleteQuery(FALSE) \/ DeleteBatch(FALSE)) =>
          /\ run'.pc = "insert" /\ run'.result = "running"
          /\ run'.exchangeMovers = run.exchangeMovers
          /\ movers' = movers
     /\ InsertBatch(FALSE) =>
          /\ run'.pc = "idle" /\ run'.result = "error"
          /\ movers' = movers
     /\ (run.pc # "idle" /\ run'.result = "error") => run.pc = "insert"
    ]_vars

\* A run that failed in a later insert batch, after a delete that failed:
\* rows of the day before are still there, next to rows it wrote itself.
C14_Witness ==
  /\ run.pc = "idle" /\ run.result = "error"
  /\ \E exchange \in {"ASX", "NASDAQ"} :
       /\ RowsOf(exchange, Today) # {}
       /\ RowsOf(exchange, DayBefore(Today)) # {}
       /\ \E old \in RowsOf(exchange, DayBefore(Today)) :
            \A new \in RowsOf(exchange, Today) : new.rank # old.rank

\* ------------------------------------------------------ the websocket routes
Pushed(connectionId, data) == [to |-> connectionId, data |-> data]
Tags(subscriptions) == {subscriptions[k] : k \in DOMAIN subscriptions}
NoDuplicate(subscriptions) ==
  Cardinality(Tags(subscriptions)) = Len(subscriptions)
SubscriptionMessages == {m \in Messages : m[1] \in {"subscribe", "unsubscribe"}}
OthersKept(c) ==
  \A d \in ConnectionIds \ {c} : Get(connections', d) = Get(connections, d)

\* C15: a ping whose push is delivered returns with exactly one push, the
\* pong to the sending connection, and with every connection record as it was.
C15_PingPongsSender ==
  [][\A h \in WsHandlers, c \in ConnectionIds :
       Notify(h, c, "ping", "ok") =>
         /\ wsResponse'.status = 200
         /\ wsResponse'.sent = <<Pushed(c, "pong")>>
         /\ connections' = connections
    ]_vars

\* A ping was answered while another connection was registered, with
\* subscriptions.
C15_Witness ==
  /\ wsResponse.action = "ping" /\ wsResponse.sent # <<>>
  /\ \E d \in DOMAIN connections :
       d # wsResponse.connectionId /\ connections[d].subscriptions # <<>>

\* C16: connect stores a record without subscriptions and disconnect removes
\* the record; a subscribe or unsubscribe for an id without a record pushes
\* 'Connection not found' and no step of it creates a record.
C16_ConnectionLifecycle ==
  [][\A h \in WsHandlers :
       /\ \A c \in ConnectionIds :
            /\ Connect(h, c, TRUE) =>
                 /\ Get(connections', c) =
                      {[connectionId |-> c, subscriptions |-> <<>>]}
                 /\ OthersKept(c)
            /\ Disconnect(h, c, TRUE) =>
                 Get(connections', c) = {} /\ OthersKept(c)
            /\ \A m \in SubscriptionMessages :
                 (GetConnection(h, c, m[1], m[2][1], m[2][2], TRUE)
                    /\ Get(connections, c) = {}) =>
                   /\ ws'[h].queue = <<"Connection not found">>
                   /\ connections' = connections
       /\ (ws[h].queue = <<"Connection not found">>) =>
            /\ Get(connections', ws[h].connectionId) = {}
            /\ Push(h, "ok") =>
                 /\ wsResponse'.status = 200
                 /\ wsResponse'.sent =
                      <<Pushed(ws[h].connectionId, "Connection not found")>>
    ]_vars

\* A subscribe or unsubscribe on an id without a record has been answered,
\* while another connection is registered.
C16_Witness ==
  /\ wsResponse.sent =
       <<Pushed(wsResponse.connectionId, "Connection not found")>>
  /\ wsResponse.connectionId \notin DOMAIN connections
  /\ DOMAIN connections # {}

\* C17: no stored list has a duplicate; a subscribe makes its tag a member
\* and an unsubscribe makes it a non-member, both leaving every other tag as
\* it was, a repeated subscribe leaving the list itself as it was; and only
\* these two and connect change the list of a record that stays.
C17_SubscriptionsFollowLatest ==
  [][/\ \A c \in DOMAIN connections' : NoDuplicate(connections'[c].subscriptions)
     /\ \A h \in WsHandlers :
          LET c == ws[h].connectionId
              tag == Subscription(ws[h].type, ws[h].symbol)
          IN /\ SubscribePut(h, TRUE) =>
                  /\ Tags(connections'[c].subscriptions) =
                       Tags(connections[c].subscriptions) \cup {tag}
                  /\ tag \in Tags(connections[c].subscriptions) =>
                       connections'[c] = connections[c]
             /\ UnsubscribePut(h, TRUE) =>
                  Tags(connections'[c].subscriptions) =
                    Tags(connections[c].subscriptions) \ {tag}
     /\ \A c \in DOMAIN connections \cap DOMAIN connections' :
          connections'[c].subscriptions # connections[c].subscriptions =>
            \E h \in WsHandlers :
              \/ Connect(h, c, TRUE)
              \/ ws[h].connectionId = c /\ SubscribePut(h, TRUE)
              \/ ws[h].connectionId = c /\ UnsubscribePut(h, TRUE)
    ]_vars

\* A subscribe to movers was acknowledged on a connection whose list has
\* movers before another tag: the tag was there already, and stayed in place.
C17_Witness ==
  /\ wsResponse.action = "subscribe" /\ wsResponse.status = 200
  /\ wsResponse.sent = <<Pushed(wsResponse.connectionId, "subscribed"),
                         Pushed(wsResponse.connectionId, "movers")>>
  /\ wsResponse.connectionId \in DOMAIN connections
  /\ connections[wsResponse.connectionId].subscriptions =
       <<<<"movers">>, <<"ticker:", "AAPL">>>>

\* C18 as claimed: an invocation in which a push failed other than by 410
\* returns 500, and a 410 is followed by the delete of the record without
\* failing the invocation.
C18_PushFailureReturns500 ==
  [][/\ (wsResponse' # NoWsReply /\ wsResponse'.failed) =>
          wsResponse'.status = 500
     /\ \A h \in WsHandlers :
          StaleDelete(h, TRUE) =>
            /\ Get(connections', ws[h].connectionId) = {}
            /\ wsResponse'.status # 500
    ]_vars

PushStep(h, outcome) ==
  \/ Push(h, outcome)
  \/ \E c \in ConnectionIds, m \in Messages : Notify(h, c, m[1], outcome)

\* C18 amended: a 410 leads to the delete of the record, after which the
\* handler carries on as after a delivered push; any other push failure
\* deletes nothing and is rethrown: outside handleSubscribe/handleUnsubscribe
\* the invocation returns 500, inside them it is caught and the failure notice
\* is the next push, so that an invocation with a failed push that does not
\* return 500 has had that notice delivered or answered by a 410.
C18_PushFailureRethrown ==
  [][/\ \A h \in WsHandlers :
          /\ PushStep(h, "gone") =>
               ws'[h].pc = "stale_delete" /\ connections' = connections
          /\ StaleDelete(h, TRUE) =>
               /\ Get(connections', ws[h].connectionId) = {}
               /\ wsResponse'.status # 500
          /\ PushStep(h, "error") =>
               /\ connections' = connections
               /\ IF ws[h].guarded
                    THEN /\ wsResponse' = NoWsReply
                         /\ ws'[h].queue = <<FailureNotice(ws[h].action)>>
                    ELSE wsResponse'.status = 500 /\ wsResponse'.failed
     /\ (wsResponse' # NoWsReply /\ wsResponse'.failed) =>
          \/ wsResponse'.status = 500
          \/ /\ wsResponse'.action \in {"subscribe", "unsubscribe"}
             /\ wsResponse'.status = 200
             /\ \/ wsResponse'.gone
                \/ /\ wsResponse'.sent # <<>>
                   /\ wsResponse'.sent[Len(wsResponse'.sent)].data =
                        FailureNotice(wsResponse'.action)
    ]_vars

\* A subscribe whose acknowledgement failed returned 200 after the failure
\* notice, with the record updated and still stored.
C18_Witness ==
  /\ wsResponse.action = "subscribe" /\ wsResponse.failed
  /\ ~wsResponse.gone /\ wsResponse.status = 200
  /\ wsResponse.sent =
       <<Pushed(wsResponse.connectionId, "Failed to subscribe")>>
  /\ wsResponse.connectionId \in DOMAIN connections
  /\ connections[wsResponse.connectionId].subscriptions # <<>>

\* The key a request in flight will write or delete.
KeyOf(h) == WatchKey(wl[h].userId, wl[h].symbol)

\* C19: when a symbol is added to a watchlist and the quote lookup returns no
\* quote (the symbol is not listed, or the quote service does not answer) or
\* fails (the symbol cannot be upper-cased), the request is answered 400, the
\* watchlists table is unchanged, and the handler has returned, so that it
\* writes no row later either.
C19_UnresolvableSymbolRejected ==
  [][\A h \in WlHandlers, u \in WatchUserIds, s \in SymbolInputs,
        n \in AddNotes, up \in BOOLEAN :
        ( /\ AddToWatchlistStart(h, u, s, n, up)
          /\ s.value # ""
          /\ \/ s.type # "string"
             \/ ~up
             \/ toUpperCase(s.value) \notin Listed )
        => /\ wlResponse'.status = 400
           /\ watchlists' = watchlists
           /\ wl'[h] = IdleWl]_vars

\* An unlisted symbol was refused while the user has rows, none for it.
C19_Witness ==
  /\ wlResponse = WlReply(400, <<"Invalid stock symbol: ", "zzzz">>)
  /\ watchlists # <<>>
  /\ \A key \in DOMAIN watchlists : key[2] # "ZZZZ"
  /\ WlInFlight = {}

\* C20: every row of the watchlists table sits under the key made of its
\* userId and its upper-cased symbol, so that a user has at most one row per
\* upper-cased symbol; an add whose PutCommand reaches the table while a row
\* with its key exists is answered 409 and changes nothing; no add, with
\* whatever outcome and with another request in flight, changes the addedAt or
\* the notes of a row that exists; a remove that finds no row is answered 404
\* and changes nothing.
C20_OneRowPerPair ==
  [][/\ \A key \in DOMAIN watchlists' :
          /\ key[2] = toUpperCase(key[2])
          /\ watchlists'[key].userId = key[1]
          /\ watchlists'[key].symbol = key[2]
     /\ \A h \in WlHandlers, now \in Times :
          (AddToWatchlistPut(h, now, TRUE) /\ KeyOf(h) \in DOMAIN watchlists)
          => /\ wlResponse'.status = 409
             /\ watchlists' = watchlists
     /\ \A h \in WlHandlers, now \in Times, ok \in BOOLEAN :
          AddToWatchlistPut(h, now, ok)
          => \A key \in DOMAIN watchlists :
               /\ key \in DOMAIN watchlists'
               /\ watchlists'[key].addedAt = watchlists[key].addedAt
               /\ watchlists'[key].notes = watchlists[key].notes
     /\ \A h \in WlHandlers, u \in WatchUserIds, s \in PathSymbols :
          ( /\ RemoveFromWatchlistGet(h, u, s, TRUE)
            /\ WatchKey(u, s) \notin DOMAIN watchlists )
          => /\ wlResponse'.status = 404
             /\ watchlists' = watchlists
             /\ wl'[h] = IdleWl]_vars

\* Two adds for the same pair, spelled "aapl" and "AAPL", ran together: one
\* has just written the row, the other is about to send its PutCommand.
C20_Witness ==
  /\ wlResponse.status = 201
  /\ \E h \in WlHandlers :
       /\ wl[h].pc = "add_put"
       /\ wl[h].symbol = "aapl"
       /\ KeyOf(h) \in DOMAIN watchlists
       /\ watchlists[KeyOf(h)].symbol = "AAPL"
       /\ watchlists[KeyOf(h)].notes # wl[h].notes

\* C22: the balance check and the commit of a buy are two steps.  A buy that
\* commits has passed the check against the balance it read, and it stores
\* that balance less its own cost whatever the stored balance is by then; so
\* two buys that read the same balance both commit and the debit of the
\* first is lost.
C22_BuyCommitsOnBalanceRead ==
  [][\A h \in Handlers :
       BuyCommit(h)
       => /\ TotalCost(req[h]) <= Item(user[h]).virtualBalance
          /\ users'[req[h].userId].virtualBalance =
               Item(user[h]).virtualBalance - TotalCost(req[h])]_vars

\* Two buys of one user are logged, together they cost more than the balance
\* at creation, and the stored balance shows the debit of the last only.
C22_Witness ==
  /\ Len(transactions) = 2
  /\ \A i \in 1 .. 2 : transactions[i].type = "BUY"
  /\ transactions[1].userId = transactions[2].userId
  /\ transactions[1].totalAmount + transactions[2].totalAmount > InitialBalance
  /\ LET u == transactions[2].userId
     IN /\ users[u].email # NoEmail
        /\ users[u].virtualBalance =
             InitialBalance - transactions[2].totalAmount
  /\ InFlight = {}

\* The sum of totalAmount over the first n logged transactions of user u
\* that have the given type.
RECURSIVE Traded(_, _, _)
Traded(u, type, n) ==
  IF n = 0 THEN 0
  ELSE Traded(u, type, n - 1)
       + (IF transactions[n].userId = u /\ transactions[n].type = type
          THEN transactions[n].totalAmount ELSE 0)

LedgerBalance(u) ==
  InitialBalance - Traded(u, "BUY", Len(transactions))
                 + Traded(u, "SELL", Len(transactions))

RECURSIVE Shares(_, _, _)
Shares(key, type, n) ==
  IF n = 0 THEN 0
  ELSE Shares(key, type, n - 1)
       + (IF <<transactions[n].userId, transactions[n].symbol>> = key
             /\ transactions[n].type = type
          THEN transactions[n].quantity ELSE 0)

\* C26: for every (user, symbol), in every interleaving of concurrently
\* running buy and sell handlers, the quantity over the committed SELL
\* transactions does not exceed the quantity over the committed BUY
\* transactions.
C26_NoShareSoldTwice ==
  \A n \in 1 .. Len(transactions) :
    LET key == <<transactions[n].userId, transactions[n].symbol>>
    IN Shares(key, "SELL", Len(transactions))
         <= Shares(key, "BUY", Len(transactions))

\* C29: no two stored users have the same email, and a createUser for an
\* email that already has a user is answered 409 and writes nothing, in every
\* interleaving of concurrent createUser requests.
C29_EmailsUnique ==
  [][/\ \A u, v \in DOMAIN users' :
          (u # v /\ users'[u].email # NoEmail)
          => users'[u].email # users'[v].email
     /\ \A h \in Handlers, e \in UserEmails :
          ( /\ CreateUserStart(h, e, TRUE)
            /\ \E u \in DOMAIN users : users[u].email = e )
          => /\ response'.status = 409
             /\ UNCHANGED store]_vars

\* The rows of a partition, and those of them an earlier run wrote.
Partition(table, pk) == {table[k] : k \in {j \in DOMAIN table : j[1] = pk}}
Stale(table, pk) == {row \in Partition(table, pk) : row.date # Today}
RunningPartition == PartitionKey(Head(run.exchanges))

\* C23 as stated: after a run that completed without error, no partition of
\* the movers table holds a row written by an earlier run.
C23_PartitionsHoldThisRun ==
  (run.pc = "idle" /\ run.result \in {"ok", "No data to process"})
  => \A row \in Rows : row.date = Today

\* C23, amended: a run touches, one after the other, the partitions of the
\* exchanges that have a mover in this run, and no other row of the table.
\* A delete that succeeds to its last batch leaves the partition empty, the
\* inserts add no row of an earlier date, and when the last row of the
\* exchange is written the partition holds exactly the ranked rows computed
\* by this run next to the earlier rows that a failed delete has left and
\* that no new row has overwritten: after a delete that did not fail it
\* holds exactly the rows of this run.
C23_RewrittenPartitionsHoldThisRun ==
  [][/\ run.pc # "idle" =>
          /\ \A k \in DOMAIN movers :
               k[1] # RunningPartition =>
                 k \in DOMAIN movers' /\ movers'[k] = movers[k]
          /\ \A k \in DOMAIN movers' \ DOMAIN movers : k[1] = RunningPartition
          /\ Stale(movers', RunningPartition)
               \subseteq Stale(movers, RunningPartition)
     /\ run.pc = "idle" => movers' = movers
     /\ ((DeleteQuery(TRUE) \/ DeleteBatch(TRUE)) /\ run'.pc = "insert")
          => Partition(movers', RunningPartition) = {}
     /\ ExchangeWritten =>
          /\ Partition(movers', RunningPartition)
                \ Stale(movers', RunningPartition)
               = {MoverItem(Head(run.exchanges), run.exchangeMovers[k], Today) :
                    k \in DOMAIN run.exchangeMovers}
          /\ Stale(movers, RunningPartition) = {}
               => Stale(movers', RunningPartition) = {}
    ]_vars

\* The second run has completed without error: one partition holds exactly
\* rows of today, while the partition of an exchange without a mover today
\* still holds the rows of the run of the day before.
C23_Witness ==
  /\ run.pc = "idle" /\ run.result = "ok"
  /\ \E exchange \in {"ASX", "NASDAQ"} :
       /\ RowsOf(exchange, Today) # {}
       /\ Stale(movers, PartitionKey(exchange)) = {}
  /\ \E exchange \in {"ASX", "NASDAQ"} :
       /\ RowsOf(exchange, Today) = {}
       /\ RowsOf(exchange, DayBefore(Today)) # {}

\* The symbols the subscribe messages supply.
SuppliedSymbols ==
  {Item(m[2][2]) : m \in {n \in Messages : n[1] = "subscribe" /\ n[2][2] # {}}}

\* C24: every tag of every stored subscription list is "movers" or
\* "ticker:<SYMBOL>" for a symbol that a subscribe message supplied, whatever
\* subscribe messages were handled, those with neither type nor symbol
\* included.
C24_TagsWellFormed ==
  \A c \in DOMAIN connections :
    \A tag \in Tags(connections[c].subscriptions) :
      \/ tag = <<"movers">>
      \/ /\ Len(tag) = 2
         /\ tag[1] = "ticker:"
         /\ tag[2] \in SuppliedSymbols

\* C27: a connection id that has no record in the store (its disconnect has
\* completed) gets one by a connect only, in every interleaving: the
\* PutCommand of a subscribe or unsubscribe that read the record before the
\* disconnect does not bring it back.
C27_OnlyConnectCreatesRecord ==
  [][\A c \in SharedConnectionIds :
       (c \notin DOMAIN connections /\ c \in DOMAIN connections')
         => \E h \in WsHandlers : Connect(h, c, TRUE)]_vars

\* The handlers of a subscribe whose 'subscribed' push was delivered.
Acknowledged ==
  {h \in WsHandlers :
     /\ ws[h].action = "subscribe"
     /\ \E k \in DOMAIN ws[h].sent : ws[h].sent[k].data = "subscribed"}

\* C28: when two subscribes for different tags of one connection are in
\* flight together and both have had their 'subscribed' push delivered, the
\* stored list of the connection holds both tags.
C28_NoSubscriptionLost ==
  \A g \in Acknowledged, h \in Acknowledged :
    LET c == ws[g].connectionId
        tagG == Subscription(ws[g].type, ws[g].symbol)
        tagH == Subscription(ws[h].type, ws[h].symbol)
    IN (g # h /\ ws[h].connectionId = c /\ tagG # tagH)
         => /\ c \in DOMAIN connections
            /\ {tagG, tagH} \subseteq Tags(connections[c].subscriptions)

\* C30: when no run is in progress and no run has thrown, no two rows of one
\* (period, exchange) partition of the movers table carry the same rank.
C30_RanksUniquePerPartition ==
  (fetch.pc = "idle" /\ fetch.thrown = 0 /\ run.pc = "idle")
    => \A j \in DOMAIN movers, k \in DOMAIN movers :
         (j # k /\ j[1] = k[1]) => movers[j].rank # movers[k].rank

\* The rows of a response body that generateMockData made.
MockRows(body) == {k \in DOMAIN body : body[k].timestamp = MockTime}

\* C21: a GET /movers answers with mock rows exactly when its query succeeded
\* and returned no row; when the query returned rows it answers 200 with
\* those rows, and when the query failed it answers 500 without any row.
C21_MockExactlyOnEmptyQuery ==
  [][\A period \in PeriodParams, exchange \in ExchangeParams,
       sector \in SectorParams, gainersOnly \in BOOLEAN,
       losersOnly \in BOOLEAN, limit \in LimitParams, ok \in BOOLEAN :
       GetMovers(period, exchange, sector, gainersOnly, losersOnly, limit, ok)
         => LET pk == MoversPk(toUpperCase(OrDefault(period, "DAILY")),
                               toUpperCase(OrDefault(exchange, "ASX")))
                items == QueryMovers(pk, LimitOf(limit), sector, gainersOnly,
                                     losersOnly)
                body == moversReply'.body
            IN /\ MockRows(body) # {} <=> (ok /\ items = <<>>)
               /\ (ok /\ items # <<>>)
                    => /\ moversReply'.status = 200
                       /\ Len(body) = Len(items)
                       /\ \A k \in DOMAIN items :
                            /\ body[k].symbol = items[k].symbol
                            /\ body[k].rank = items[k].rank
                            /\ body[k].timestamp = items[k].timestamp
               /\ ~ok => moversReply'.status = 500 /\ body = <<>>]_vars

\* A response of mock rows although the movers table holds rows: the query
\* of the partition asked for, filtered, returned none.
C21_Witness ==
  /\ moversReply.status = 200
  /\ MockRows(moversReply.body) # {}
  /\ movers # <<>>

====
